---- MODULE Spec2Model ----
(***************************************************************************)
(* Cache partitioning and contention scoring (arpitmishra23/Experiments).  *)
(*                                                                         *)
(*   - split_mask of cos.c (src/unnamed/part_000) and of                   *)
(*     vm_cache_partition_monitor.c (src/split_cache_and_monitor.c);       *)
(*   - the aggregation/scoring awk program of the core-map script          *)
(*     (second half of src/victim.c) and the scoring awk program of        *)
(*     noisy_detector.sh (src/unnamed/part_001);                           *)
(*   - monitor_pids_pair, the polling loop of both C programs.             *)
(*   - main() of both C programs after the split: the resctrl classes    *)
(*     COS1 and COS2 from their creation to their removal;                 *)
(*   - monitor_cores and main() of run_rdt.c (src/run_rdt.c);              *)
(*   - the MISSES suffix handling of the two awk log parsers.              *)
(*                                                                         *)
(* A uint64_t mask is represented by the set of its set-bit positions      *)
(* (a subset of 0..63): x | y is union, x & ~y is difference,              *)
(* (x >> b) & 1 is b \in x and 1ULL << b is {b}.                           *)
(***************************************************************************)
EXTENDS Integers, Sequences, FiniteSets, TLC

VARIABLES
    \* ---- main() up to the split (both C programs)
    prog,           \* "cos" (cos.c) or "vm" (vm_cache_partition_monitor.c)
    main_pc,        \* position in main()
    full_mask,      \* the parsed capacity mask
    mask1, mask2,   \* the two shares
    \* ---- the two scoring scripts
    script,         \* "core_map" or "noisy_detector": the one that runs
    K,              \* -v K
    \* ---- the awk program of the core-map script
    awk_order,      \* the order in which this awk build enumerates "for (p in A)"
    awk_pc,         \* "lines" while records are read, "end" after END ran
    idx,            \* Uninit until reset_block() first assigns it
    have_block,
    block,          \* the arrays core, PROC, IPC, MIS, LLC, MBL, MBR, by subscript
    rows_read,      \* ghost: the data rows of the current tick, in file order
    first_tick,     \* ghost: no tick has been flushed yet
    out,            \* what the last handler printed: <<>> or one flushed tick
    replay,         \* ghost: the log repeats one tick (SpecReplay)
    last_tick,      \* ghost (replay only): <<>> or the tick flushed last
    prev_tick,      \* ghost (replay only): <<>> or the tick flushed before it
    \* ---- the scoring awk program of noisy_detector.sh
    agg,            \* the lines of $AGG below the header
    nd_out,         \* <<>> or what the END block printed
    \* ---- monitor_pids_pair
    mon_pc, phase, duration, s, wait_i, live, groups, polled, checked,
    f1, f2, exit_msg,
    values,         \* group0.values, group1.values: the poll that filled them last
    seen,           \* ghost: the targets wait_for_pid found live in this call
    lib_err,        \* ghost: the kinds of pqos_mon_* call that returned an error
    \* ---- resctrl as main() drives it
    cos_dirs,       \* the allocation classes that exist
    schemata,       \* the control strings written, per class
    tasks,          \* the class each process is a member of
    appended,       \* ghost: the (file, pid) membership appends main() made
    \* ---- one MISSES field handed to a log parser
    parser, mis_tok, mis_val,
    \* ---- the rest of a run of a partitioning program
    found,          \* what find_vm_pid returned so far: <<>>, <<pid1>>, <<pid1, pid2>>
    peer_pc,        \* position of a second instance of the program on the same host
    \* ---- the core-map script before its awk program reads the log
    map_pc,         \* position in the script
    P1C, P2C,       \* the two core specifications, as lists of segments
    ALL_CORES,      \* the cores handed to pqos -m
    MAPFILE,        \* the lines of core_map.csv, each a list of comma-separated fields
    loaded_map,     \* core2proc as the BEGIN block loaded it
    \* ---- one miss delta on its way from a sampler to a parser
    miss            \* <<>> or the delta a sampler printed

split_vars == <<prog, main_pc, full_mask, mask1, mask2>>
awk_vars   == <<script, K, awk_order, awk_pc, idx, have_block, block, rows_read,
                first_tick, out, replay, last_tick, prev_tick>>
nd_vars    == <<agg, nd_out>>
mon_vars   == <<mon_pc, phase, duration, s, wait_i, live, groups, polled,
                checked, f1, f2, exit_msg>>
mon_aux    == <<values, seen, lib_err>>
alloc_vars == <<cos_dirs, schemata, tasks, appended>>
parse_vars == <<parser, mis_tok, mis_val, miss>>
map_vars == <<map_pc, P1C, P2C, ALL_CORES, MAPFILE, loaded_map>>
run_vars == <<found, peer_pc, map_vars>>
vars == <<split_vars, awk_vars, nd_vars, mon_vars, mon_aux, alloc_vars, parse_vars, run_vars>>

None == "none"

(***************************************************************************)
(* Bounds.                                                                 *)
(***************************************************************************)
MaxLowBits == 4     \* masks range over bits 0..MaxLowBits-1 and 31, 32, 62, 63
MaxRows == 2        \* data rows per tick
MaxProcs == 2       \* lines of $AGG
MaxDuration == 2    \* ticks per monitoring phase
MaxCore == 2        \* the largest core id of a core specification
MaxSegs == 2        \* comma-separated segments of the first core specification
MaxMiss == 2100     \* the largest of the small miss deltas
MaxMisDigits == 12  \* the number in front of the suffix of a MISSES field

(***************************************************************************)
(* Program constants.                                                      *)
(***************************************************************************)
WordBits == 64
WaitTimeout == 5

Min(S) == CHOOSE x \in S : \A y \in S : x <= y

RECURSIVE SumOver(_, _)
SumOver(f, S) ==
    IF S = {} THEN 0
    ELSE LET x == CHOOSE y \in S : TRUE IN f[x] + SumOver(f, S \ {x})

(***************************************************************************)
(* split_mask.                                                             *)
(***************************************************************************)
BitPositions == (0 .. MaxLowBits - 1) \cup {31, 32, 62, 63}
Masks == SUBSET BitPositions

\* cos.c count_bits: while (x) { x &= (x - 1); cnt++; }
RECURSIVE count_bits(_)
count_bits(x) ==
    IF x = {} THEN 0 ELSE 1 + count_bits(x \ {Min(x)})

\* vm_cache_partition_monitor.c: for (b = 0; b < 64; b++) if ((full_mask >> b) & 1) total_bits++
RECURSIVE count_loop(_, _)
count_loop(mask, b) ==
    IF b < WordBits
    THEN (IF b \in mask THEN 1 ELSE 0) + count_loop(mask, b + 1)
    ELSE 0

\* A mutant of the picking loop: it walks from the most significant bit down.
RECURSIVE pick_high(_, _, _, _, _)
pick_high(mask, half, b, picked, m1) ==
    IF b < WordBits /\ picked < half
    THEN IF (WordBits - 1 - b) \in mask
         THEN pick_high(mask, half, b + 1, picked + 1, m1 \cup {WordBits - 1 - b})
         ELSE pick_high(mask, half, b + 1, picked, m1)
    ELSE m1

\* A mutant of the picking loop: it sets the bit it visits whether or not the
\* full mask has it.
RECURSIVE pick_any(_, _, _, _, _)
pick_any(mask, half, b, picked, m1) ==
    IF b < WordBits /\ picked < half
    THEN pick_any(mask, half, b + 1, picked + 1, m1 \cup {b})
    ELSE m1

\* A mutant of the picking loop: the bound is picked <= half.
RECURSIVE pick_one_more(_, _, _, _, _)
pick_one_more(mask, half, b, picked, m1) ==
    IF b < WordBits /\ picked <= half
    THEN IF b \in mask
         THEN pick_one_more(mask, half, b + 1, picked + 1, m1 \cup {b})
         ELSE pick_one_more(mask, half, b + 1, picked, m1)
    ELSE m1

\* for (b = 0; b < 64 && picked < half; b++)
\*     if ((full_mask >> b) & 1ULL) { m1 |= (1ULL << b); picked++; }
RECURSIVE pick_low(_, _, _, _, _)
pick_low(mask, half, b, picked, m1) ==
    IF b < WordBits /\ picked < half
    THEN IF b \in mask
         THEN pick_low(mask, half, b + 1, picked + 1, m1 \cup {b})
         ELSE pick_low(mask, half, b + 1, picked, m1)
    ELSE m1

\* cos.c split_mask: <<*mask1, *mask2>>
cos_split_mask(mask) ==
    LET total_bits == count_bits(mask)
        half == total_bits \div 2
        m1 == pick_low(mask, half, 0, 0, {})
    IN <<m1, mask \ m1>>

\* vm_cache_partition_monitor.c split_mask: <<*mask1, *mask2>>
vm_split_mask(mask) ==
    LET total_bits == count_loop(mask, 0)
        half == total_bits \div 2
        m1 == pick_low(mask, half, 0, 0, {})
    IN <<m1, mask \ m1>>

map_idle ==
    /\ map_pc = None /\ P1C = <<>> /\ P2C = <<>> /\ ALL_CORES = {}
    /\ MAPFILE = <<>> /\ loaded_map = <<>>

alloc_idle == /\ cos_dirs = {} /\ schemata = <<>> /\ tasks = <<>> /\ appended = {}
              /\ found = <<>> /\ peer_pc = None /\ map_idle

split_idle == /\ prog = None /\ main_pc = None /\ full_mask = {}
              /\ mask1 = {} /\ mask2 = {}
              /\ alloc_idle

split_idle_but_map ==
    /\ prog = None /\ main_pc = None /\ full_mask = {} /\ mask1 = {} /\ mask2 = {}
    /\ cos_dirs = {} /\ schemata = <<>> /\ tasks = <<>> /\ appended = {}
    /\ found = <<>> /\ peer_pc = None

\* main(): the capacity file is read and parsed
ReadMask ==
    /\ main_pc = "read_mask"
    /\ \E m \in Masks : full_mask' = m
    /\ main_pc' = IF prog = "cos" THEN "check_ways" ELSE "split"
    /\ UNCHANGED <<prog, mask1, mask2>>
    /\ UNCHANGED <<awk_vars, nd_vars, mon_vars, mon_aux, alloc_vars, parse_vars, run_vars>>

\* cos.c main(): if (total_ways == 0) die(...)
CheckWays ==
    /\ main_pc = "check_ways"
    /\ main_pc' = IF count_bits(full_mask) = 0 THEN "died" ELSE "split"
    /\ UNCHANGED <<prog, full_mask, mask1, mask2>>
    /\ UNCHANGED <<awk_vars, nd_vars, mon_vars, mon_aux, alloc_vars, parse_vars, run_vars>>

\* main(): split_mask(full_mask, &mask_lower, &mask_upper)
SplitMask ==
    /\ main_pc = "split"
    /\ LET r == IF prog = "cos" THEN cos_split_mask(full_mask)
                ELSE vm_split_mask(full_mask)
       IN /\ mask1' = r[1]
          /\ mask2' = r[2]
    /\ main_pc' = "split_done"
    /\ UNCHANGED <<prog, full_mask>>
    /\ UNCHANGED <<awk_vars, nd_vars, mon_vars, mon_aux, alloc_vars, parse_vars, run_vars>>


(***************************************************************************)
(* Exact arithmetic for the awk programs: a score is a fraction in lowest  *)
(* terms with a positive denominator, so equal values are equal records.   *)
(* Sample values are fixed-point integers (the log's decimals scaled).     *)
(***************************************************************************)
Abs(x) == IF x < 0 THEN -x ELSE x

RECURSIVE GCD(_, _)
GCD(a, b) == IF b = 0 THEN a ELSE GCD(b, a % b)

\* a division by zero has no value: it is kept as a fraction of denominator 0
Frac(n, d) ==
    IF d = 0 THEN [num |-> n, den |-> 0]
    ELSE LET g == GCD(Abs(n), d)
         IN [num |-> n \div g, den |-> d \div g]

FAdd(a, b) == Frac(a.num * b.den + b.num * a.den, a.den * b.den)
FScale(k, a) == Frac(k * a.num, a.den)
FGt(a, b) == a.num * b.den > b.num * a.den
FInt(n) == [num |-> n, den |-> 1]

(***************************************************************************)
(* The sample log and the core map.                                        *)
(***************************************************************************)
Uninit == -1        \* an awk variable never assigned: "" as a subscript, 0 as a number

\* MAP_STR="proc1:$P1C proc2:$P2C" with the defaults 24 and 25-32, as the
\* BEGIN block loads it into core2proc
core2proc ==
    [c \in {24} \cup (25 .. 32) |-> IF c = 24 THEN "proc1" ELSE "proc2"]

Cores == {7, 24, 25, 26}
Labels == {"", "proc1", "proc2", "unmapped"}

\* a MISSES field: digits and an optional suffix letter
Profiles ==
    { [ipc |-> 0, mis |-> [digits |-> 0, suffix |-> "k"], llc |-> 0, mbl |-> 0, mbr |-> 0],
      [ipc |-> 1, mis |-> [digits |-> 1, suffix |-> "k"], llc |-> 2, mbl |-> 1, mbr |-> 3],
      [ipc |-> 2, mis |-> [digits |-> 2, suffix |-> "k"], llc |-> 1, mbl |-> 3, mbr |-> 0] }

Rows ==
    { [core |-> c, ipc |-> v.ipc, mis |-> v.mis, llc |-> v.llc,
       mbl |-> v.mbl, mbr |-> v.mbr] : c \in Cores, v \in Profiles }

Ks == {-4, 0, 1, 2}

Perms(S) == { q \in [1 .. Cardinality(S) -> S] : \A x \in S : \E i \in DOMAIN q : q[i] = x }

RECURSIVE Pow10(_)
Pow10(n) == IF n = 0 THEN 1 ELSE 10 * Pow10(n - 1)

\* gsub(/<letter>$/, "<zeros>", mis)
gsub_suffix(tok, letter, zeros) ==
    IF tok.suffix = letter
    THEN [digits |-> tok.digits * Pow10(zeros), suffix |-> ""]
    ELSE tok

\* gsub(/k$/,"000",mis); gsub(/m$/,"000000",mis);
\* gsub(/K$/,"000",mis); gsub(/M$/,"000000",mis); mis+=0
expand_mis(tok) ==
    LET t1 == gsub_suffix(tok, "k", 3)
        t2 == gsub_suffix(t1, "m", 6)
        t3 == gsub_suffix(t2, "K", 3)
        t4 == gsub_suffix(t3, "M", 6)
    IN t4.digits

\* p = (core_id in core2proc) ? core2proc[core_id] : "unmapped"
label_of(core_id) ==
    IF core_id \in DOMAIN core2proc THEN core2proc[core_id] ELSE "unmapped"

\* the values a data line stores under one subscript of the block arrays
parse_row(r) ==
    [core |-> r.core, PROC |-> label_of(r.core), IPC |-> r.ipc,
     MIS |-> expand_mis(r.mis), LLC |-> r.llc, MBL |-> r.mbl, MBR |-> r.mbr]

\* an array element that was never stored reads as "" and 0
elem(arr, i) ==
    IF i \in DOMAIN arr THEN arr[i]
    ELSE [core |-> 0, PROC |-> "", IPC |-> 0, MIS |-> 0, LLC |-> 0, MBL |-> 0, MBR |-> 0]

zero_sums == [IPC |-> 0, MIS |-> 0, LLC |-> 0, MBL |-> 0, MBR |-> 0]

\* for(i=0;i<idx;i++){ p=PROC[i]; P_IPC[p]+=IPC[i]; ... }: the P_ arrays, by label
RECURSIVE fold_rows(_, _, _, _)
fold_rows(arr, n, i, P) ==
    IF i < n
    THEN LET e == elem(arr, i)
             old == IF e.PROC \in DOMAIN P THEN P[e.PROC] ELSE zero_sums
             new == [IPC |-> old.IPC + e.IPC, MIS |-> old.MIS + e.MIS,
                     LLC |-> old.LLC + e.LLC, MBL |-> old.MBL + e.MBL,
                     MBR |-> old.MBR + e.MBR]
         IN fold_rows(arr, n, i + 1, (e.PROC :> new) @@ P)
    ELSE P

\* the keys of P_IPC in the order "for (p in P_IPC)" visits them
iteration(P, order) == SelectSeq(order, LAMBDA p : p \in DOMAIN P)

\* A mutant of the floor: a zero sum is left as it is.
floor_sum_keep(x) == x

\* if(sum==0) sum=1
floor_sum(x) == IF x = 0 THEN 1 ELSE x

\* A mutant of the score: K weighs the occupancy score instead of the harm score.
noise_of_swapped(bw, llc, mis, sum_bw, sum_occ, sum_mis, k) ==
    LET nbw == Frac(bw, sum_bw)
        nocc == Frac(llc, sum_occ)
        nharm == Frac(mis, sum_mis)
        occ == FAdd(nbw, nocc)
    IN [nbw |-> nbw, nocc |-> nocc, nharm |-> nharm, occ |-> occ,
        harm |-> nharm, noise |-> FAdd(FScale(k, occ), nharm)]

\* nbw = bw/sum_bw; nocc = P_LLC[p]/sum_occ; nharm = P_MIS[p]/sum_mis;
\* occ = nbw + nocc; harm = nharm; noise = occ + K*harm
noise_of(bw, llc, mis, sum_bw, sum_occ, sum_mis, k) ==
    LET nbw == Frac(bw, sum_bw)
        nocc == Frac(llc, sum_occ)
        nharm == Frac(mis, sum_mis)
        occ == FAdd(nbw, nocc)
    IN [nbw |-> nbw, nocc |-> nocc, nharm |-> nharm, occ |-> occ,
        harm |-> nharm, noise |-> FAdd(occ, FScale(k, nharm))]

\* A mutant of the comparison: the running minimum is kept.
better_reversed(noise, maxN) == FGt(maxN, noise)

\* if(noise>maxN)
better(noise, maxN) == FGt(noise, maxN)

\* the second loop of flush_block over the keys in visiting order: the records
\* printed and the running maxN / culprit
RECURSIVE score_loop(_, _, _, _, _, _)
score_loop(P, keys, i, sums, k, acc) ==
    IF i <= Len(keys)
    THEN LET p == keys[i]
             sc == noise_of(P[p].MBL + P[p].MBR, P[p].LLC, P[p].MIS,
                            sums.bw, sums.occ, sums.mis, k)
             rec == [process |-> p, IPC_sum |-> P[p].IPC, MISSES_sum |-> P[p].MIS,
                     LLC_KB_sum |-> P[p].LLC, MBL_sum |-> P[p].MBL,
                     MBR_sum |-> P[p].MBR, norm_bw |-> sc.nbw,
                     norm_llc_occ |-> sc.nocc, norm_llc_miss |-> sc.nharm,
                     Occ_Score |-> sc.occ, Harm_Score |-> sc.harm,
                     Noise_Score |-> sc.noise]
             win == better(sc.noise, acc.maxN)
         IN score_loop(P, keys, i + 1, sums, k,
                       [records |-> Append(acc.records, rec),
                        maxN |-> IF win THEN sc.noise ELSE acc.maxN,
                        culprit |-> IF win THEN p ELSE acc.culprit])
    ELSE acc

\* flush_block(): what it prints to the score file and to the verdict file
flush_block(arr, n, k, order) ==
    LET P == fold_rows(arr, n, 0, <<>>)
        keys == iteration(P, order)
        sums == [bw |-> floor_sum(SumOver([p \in DOMAIN P |-> P[p].MBL + P[p].MBR], DOMAIN P)),
                 occ |-> floor_sum(SumOver([p \in DOMAIN P |-> P[p].LLC], DOMAIN P)),
                 mis |-> floor_sum(SumOver([p \in DOMAIN P |-> P[p].MIS], DOMAIN P))]
    IN score_loop(P, keys, 1, sums, k,
                  [records |-> <<>>, maxN |-> FInt(-1), culprit |-> ""])

\* what a flush contributes to the output files, with the rows it was given
tick_of(rows, first, res) ==
    [rows |-> rows, first |-> first, records |-> res.records,
     culprit |-> res.culprit, maxN |-> res.maxN]

\* $1=="TIME"{ if(have_block){ flush_block(); reset_block(); } time=$2" "$3; next }
ReadTime ==
    /\ script = "core_map"
    /\ awk_pc \in {"begin", "lines"}
    /\ awk_pc' = "lines"
    /\ rows_read' = <<>>
    /\ IF have_block
       THEN LET t == tick_of(rows_read, first_tick, flush_block(block, idx, K, awk_order))
            IN /\ out' = <<t>>
               /\ block' = <<>>
               /\ idx' = 0
               /\ first_tick' = FALSE
               /\ IF replay
                  THEN last_tick' = <<t>> /\ prev_tick' = last_tick
                  ELSE UNCHANGED <<last_tick, prev_tick>>
       ELSE /\ out' = <<>>
            /\ UNCHANGED <<block, idx, first_tick, last_tick, prev_tick>>
    /\ UNCHANGED <<script, K, awk_order, have_block, replay>>
    /\ UNCHANGED <<split_vars, nd_vars, mon_vars, mon_aux, alloc_vars, parse_vars, run_vars>>

\* /^[[:space:]]*[0-9]+[[:space:]]+/{ ...; core[idx]=core_id; ...; idx++; have_block=1; next }
ReadRow ==
    /\ script = "core_map"
    /\ awk_pc = "lines"
    /\ Len(rows_read) < MaxRows
    /\ \E r \in Rows :
          /\ block' = (idx :> parse_row(r)) @@ block
          /\ rows_read' = Append(rows_read, r)
    /\ idx' = IF idx = Uninit THEN 1 ELSE idx + 1
    /\ have_block' = TRUE
    /\ out' = <<>>
    /\ UNCHANGED <<script, K, awk_order, awk_pc, first_tick, replay, last_tick, prev_tick>>
    /\ UNCHANGED <<split_vars, nd_vars, mon_vars, mon_aux, alloc_vars, parse_vars, run_vars>>

\* END{ if(have_block) flush_block(); }
End ==
    /\ script = "core_map"
    /\ awk_pc = "lines"
    /\ awk_pc' = "end"
    /\ IF have_block
       THEN LET t == tick_of(rows_read, first_tick, flush_block(block, idx, K, awk_order))
            IN /\ out' = <<t>>
               /\ first_tick' = FALSE
               /\ IF replay
                  THEN last_tick' = <<t>> /\ prev_tick' = last_tick
                  ELSE UNCHANGED <<last_tick, prev_tick>>
       ELSE /\ out' = <<>>
            /\ UNCHANGED <<first_tick, last_tick, prev_tick>>
    /\ UNCHANGED <<script, K, awk_order, idx, have_block, block, rows_read, replay>>
    /\ UNCHANGED <<split_vars, nd_vars, mon_vars, mon_aux, alloc_vars, parse_vars, run_vars>>

(***************************************************************************)
(* noisy_detector.sh, step 5: the scoring awk program over $AGG.           *)
(***************************************************************************)
Procs == {"1201", "1202", "1203"}

AggLines ==
    { [proc |-> p, mis |-> m, llc |-> l, bw |-> b] :
        p \in Procs, m \in {0, 1000}, l \in {0, 2}, b \in {0, 3, 4} }

\* the PIDs come out of "sort | uniq -c", so no two lines name the same one
Aggs ==
    UNION { { a \in [1 .. n -> AggLines] :
                \A i, j \in 1 .. n : i # j => a[i].proc # a[j].proc } :
            n \in 0 .. MaxProcs }

\* A mutant of the floor: every sum is one too large.
nd_floor_plus(x) == x + 1

\* sum = sum ? sum : 1
nd_floor(x) == IF x # 0 THEN x ELSE 1

\* for(i=1;i<=n;i++){ p=procs[i]; ...; if(noise>maxN){ maxN=noise; noisy=p } }
RECURSIVE nd_loop(_, _, _, _, _)
nd_loop(lines, i, sums, k, acc) ==
    IF i <= Len(lines)
    THEN LET p == lines[i].proc
             sc == noise_of(lines[i].bw, lines[i].llc, lines[i].mis,
                            sums.bw, sums.occ, sums.mis, k)
             rec == [process |-> p, MBW |-> lines[i].bw, LLC |-> lines[i].llc,
                     MIS |-> lines[i].mis, Occ_Score |-> sc.occ,
                     Harm_Score |-> sc.harm, Noise_Score |-> sc.noise]
             win == better(sc.noise, acc.maxN)
         IN nd_loop(lines, i + 1, sums, k,
                    [records |-> Append(acc.records, rec),
                     maxN |-> IF win THEN sc.noise ELSE acc.maxN,
                     culprit |-> IF win THEN p ELSE acc.culprit])
    ELSE acc

\* NR>1 { ...; sum_mis += mis; sum_llc += llc; sum_bw += bw; procs[++n]=p } END { ... }
nd_score(lines, k) ==
    LET ix == DOMAIN lines
        sums == [bw |-> nd_floor(SumOver([i \in ix |-> lines[i].bw], ix)),
                 occ |-> nd_floor(SumOver([i \in ix |-> lines[i].llc], ix)),
                 mis |-> nd_floor(SumOver([i \in ix |-> lines[i].mis], ix))]
    IN nd_loop(lines, 1, sums, k,
               [records |-> <<>>, maxN |-> FInt(-1), culprit |-> ""])

\* awk -F, -v K="$K" '...' "$AGG"
ScoreAgg ==
    /\ script = "noisy_detector"
    /\ nd_out = <<>>
    /\ nd_out' = <<nd_score(agg, K)>>
    /\ UNCHANGED agg
    /\ UNCHANGED <<split_vars, awk_vars, mon_vars, mon_aux, alloc_vars, parse_vars, run_vars>>

awk_idle ==
    /\ awk_order = <<>> /\ awk_pc = None /\ idx = Uninit /\ have_block = FALSE
    /\ block = <<>> /\ rows_read = <<>> /\ first_tick = TRUE /\ out = <<>>
    /\ replay = FALSE /\ last_tick = <<>> /\ prev_tick = <<>>

nd_idle == agg = <<>> /\ nd_out = <<>>

parse_idle == parser = None /\ mis_tok = <<>> /\ mis_val = <<>> /\ miss = <<>>

score_idle == script = None /\ K = 0 /\ awk_idle /\ nd_idle /\ parse_idle

(***************************************************************************)
(* monitor_pids_pair (the same text in both C programs) and the two calls  *)
(* main() makes of it.  A file does not exist until fopen(..., "w")        *)
(* creates it; its lines are what was written to it (die() ends in exit(), *)
(* which flushes what fprintf buffered).  A monitoring group is active     *)
(* from a successful start until a successful stop or a successful         *)
(* pqos_mon_reset(); a group is named with the phase that started it.      *)
(***************************************************************************)
Pids == {"pid1", "pid2"}
Phases == {1, 2}
NoFile == [exists |-> FALSE, lines |-> <<>>]
GroupNames == {"group0", "group1"}
NoPoll == [phase |-> 0, tick |-> 0]

mon_idle ==
    /\ mon_pc = None /\ phase = 0 /\ duration = 0 /\ s = 0 /\ wait_i = 0
    /\ live = {} /\ groups = {} /\ polled = {} /\ checked = {}
    /\ f1 = <<>> /\ f2 = <<>> /\ exit_msg = None
    /\ values = <<>> /\ seen = {} /\ lib_err = {}

\* the groups the current call of the monitor started and that are still active
Started(g) == [g |-> g, phase |-> phase]

\* die(fmt, ...): message to stderr, exit(EXIT_FAILURE)
die(msg) ==
    /\ mon_pc' = "died"
    /\ exit_msg' = msg

\* A mutant of wait_for_pid(pid2, 5): a target never seen is not fatal.
WaitPid2Proceed ==
    /\ mon_pc = "wait2"
    /\ IF "pid2" \in live
       THEN /\ mon_pc' = "start0" /\ wait_i' = 0 /\ seen' = seen \cup {"pid2"}
       ELSE IF wait_i + 1 < WaitTimeout
            THEN /\ wait_i' = wait_i + 1 /\ UNCHANGED <<mon_pc, seen>>
            ELSE /\ mon_pc' = "start0" /\ wait_i' = 0 /\ UNCHANGED seen
    /\ UNCHANGED <<phase, duration, s, live, groups, polled, checked, f1, f2, exit_msg>>
    /\ UNCHANGED <<values, lib_err>>
    /\ UNCHANGED <<split_vars, awk_vars, nd_vars, alloc_vars, parse_vars, run_vars>>

\* wait_for_pid(pid1, 5): one attempt of the loop; sleep(1) after a miss
WaitPid1 ==
    /\ mon_pc = "wait1"
    /\ IF "pid1" \in live
       THEN /\ mon_pc' = "wait2" /\ wait_i' = 0 /\ seen' = seen \cup {"pid1"}
            /\ UNCHANGED exit_msg
       ELSE IF wait_i + 1 < WaitTimeout
            THEN /\ wait_i' = wait_i + 1 /\ UNCHANGED <<mon_pc, exit_msg, seen>>
            ELSE /\ die("not running") /\ UNCHANGED <<wait_i, seen>>
    /\ UNCHANGED <<phase, duration, s, live, groups, polled, checked, f1, f2>>
    /\ UNCHANGED <<values, lib_err>>
    /\ UNCHANGED <<split_vars, awk_vars, nd_vars, alloc_vars, parse_vars, run_vars>>

\* wait_for_pid(pid2, 5)
WaitPid2 ==
    /\ mon_pc = "wait2"
    /\ IF "pid2" \in live
       THEN /\ mon_pc' = "start0" /\ wait_i' = 0 /\ seen' = seen \cup {"pid2"}
            /\ UNCHANGED exit_msg
       ELSE IF wait_i + 1 < WaitTimeout
            THEN /\ wait_i' = wait_i + 1 /\ UNCHANGED <<mon_pc, exit_msg, seen>>
            ELSE /\ die("not running") /\ UNCHANGED <<wait_i, seen>>
    /\ UNCHANGED <<phase, duration, s, live, groups, polled, checked, f1, f2>>
    /\ UNCHANGED <<values, lib_err>>
    /\ UNCHANGED <<split_vars, awk_vars, nd_vars, alloc_vars, parse_vars, run_vars>>

\* ret = pqos_mon_start_pids(1, &p1, ev_mask, NULL, &group0)
StartGroup0 ==
    /\ mon_pc = "start0"
    /\ \E ok \in BOOLEAN :
          IF ok
          THEN /\ groups' = groups \cup {Started("group0")}
               /\ mon_pc' = "start1" /\ UNCHANGED <<exit_msg, lib_err>>
          ELSE /\ die("start failed") /\ UNCHANGED groups
               /\ lib_err' = lib_err \cup {"start"}
    /\ UNCHANGED <<phase, duration, s, wait_i, live, polled, checked, f1, f2>>
    /\ UNCHANGED <<values, seen>>
    /\ UNCHANGED <<split_vars, awk_vars, nd_vars, alloc_vars, parse_vars, run_vars>>

\* ret = pqos_mon_start_pids(1, &p2, ...); on failure pqos_mon_stop(&group0)
\* (its result is not looked at) and die
StartGroup1 ==
    /\ mon_pc = "start1"
    /\ \E ok \in BOOLEAN, stopped \in BOOLEAN :
          IF ok
          THEN /\ stopped
               /\ groups' = groups \cup {Started("group1")}
               /\ mon_pc' = "open1" /\ UNCHANGED <<exit_msg, lib_err>>
          ELSE /\ groups' = IF stopped THEN groups \ {Started("group0")} ELSE groups
               /\ lib_err' = lib_err \cup {"start"}
                                     \cup (IF stopped THEN {} ELSE {"stop"})
               /\ die("start failed")
    /\ UNCHANGED <<phase, duration, s, wait_i, live, polled, checked, f1, f2>>
    /\ UNCHANGED <<values, seen>>
    /\ UNCHANGED <<split_vars, awk_vars, nd_vars, alloc_vars, parse_vars, run_vars>>

\* FILE *f1 = fopen(outfile1, "w"); if (!f1) die(...)
OpenFile1 ==
    /\ mon_pc = "open1"
    /\ \E ok \in BOOLEAN :
          IF ok
          THEN /\ f1' = [f1 EXCEPT ![phase] = [exists |-> TRUE, lines |-> <<>>]]
               /\ mon_pc' = "open2" /\ UNCHANGED exit_msg
          ELSE /\ die("fopen failed") /\ UNCHANGED f1
    /\ UNCHANGED <<phase, duration, s, wait_i, live, groups, polled, checked, f2>>
    /\ UNCHANGED mon_aux
    /\ UNCHANGED <<split_vars, awk_vars, nd_vars, alloc_vars, parse_vars, run_vars>>

\* FILE *f2 = fopen(outfile2, "w"); if (!f2) die(...)
OpenFile2 ==
    /\ mon_pc = "open2"
    /\ \E ok \in BOOLEAN :
          IF ok
          THEN /\ f2' = [f2 EXCEPT ![phase] = [exists |-> TRUE, lines |-> <<>>]]
               /\ mon_pc' = "header" /\ UNCHANGED exit_msg
          ELSE /\ die("fopen failed") /\ UNCHANGED f2
    /\ UNCHANGED <<phase, duration, s, wait_i, live, groups, polled, checked, f1>>
    /\ UNCHANGED mon_aux
    /\ UNCHANGED <<split_vars, awk_vars, nd_vars, alloc_vars, parse_vars, run_vars>>

\* the two fprintf of the header line; s = 0 of the for loop
WriteHeader ==
    /\ mon_pc = "header"
    /\ f1' = [f1 EXCEPT ![phase].lines = Append(@, [line |-> "header"])]
    /\ f2' = [f2 EXCEPT ![phase].lines = Append(@, [line |-> "header"])]
    /\ s' = 0
    /\ mon_pc' = "loop"
    /\ UNCHANGED <<phase, duration, wait_i, live, groups, polled, checked, exit_msg>>
    /\ UNCHANGED mon_aux
    /\ UNCHANGED <<split_vars, awk_vars, nd_vars, alloc_vars, parse_vars, run_vars>>

\* A mutant of the loop test: s <= duration.
LoopTestInclusive ==
    /\ mon_pc = "loop"
    /\ mon_pc' = IF s <= duration THEN "chk1" ELSE "stop"
    /\ checked' = {}
    /\ UNCHANGED <<phase, duration, s, wait_i, live, groups, polled, f1, f2, exit_msg>>
    /\ UNCHANGED mon_aux
    /\ UNCHANGED <<split_vars, awk_vars, nd_vars, alloc_vars, parse_vars, run_vars>>

\* for (...; s < duration; ...) { sleep(1);
LoopTest ==
    /\ mon_pc = "loop"
    /\ mon_pc' = IF s < duration THEN "chk1" ELSE "stop"
    /\ checked' = {}
    /\ UNCHANGED <<phase, duration, s, wait_i, live, groups, polled, f1, f2, exit_msg>>
    /\ UNCHANGED mon_aux
    /\ UNCHANGED <<split_vars, awk_vars, nd_vars, alloc_vars, parse_vars, run_vars>>

\* if (stat("/proc/<pid1>") != 0) die("PID %d disappeared", pid1)
CheckPid1 ==
    /\ mon_pc = "chk1"
    /\ IF "pid1" \in live
       THEN /\ checked' = checked \cup {"pid1"}
            /\ mon_pc' = "chk2" /\ UNCHANGED exit_msg
       ELSE /\ die("disappeared") /\ UNCHANGED checked
    /\ UNCHANGED <<phase, duration, s, wait_i, live, groups, polled, f1, f2>>
    /\ UNCHANGED mon_aux
    /\ UNCHANGED <<split_vars, awk_vars, nd_vars, alloc_vars, parse_vars, run_vars>>

\* A mutant of the second liveness check: a vanished pid2 is skipped, not fatal.
CheckPid2Skip ==
    /\ mon_pc = "chk2"
    /\ checked' = checked \cup ({"pid2"} \cap live)
    /\ mon_pc' = "poll"
    /\ UNCHANGED <<phase, duration, s, wait_i, live, groups, polled, f1, f2, exit_msg>>
    /\ UNCHANGED mon_aux
    /\ UNCHANGED <<split_vars, awk_vars, nd_vars, alloc_vars, parse_vars, run_vars>>

\* if (stat("/proc/<pid2>") != 0) die("PID %d disappeared", pid2)
CheckPid2 ==
    /\ mon_pc = "chk2"
    /\ IF "pid2" \in live
       THEN /\ checked' = checked \cup {"pid2"}
            /\ mon_pc' = "poll" /\ UNCHANGED exit_msg
       ELSE /\ die("disappeared") /\ UNCHANGED checked
    /\ UNCHANGED <<phase, duration, s, wait_i, live, groups, polled, f1, f2>>
    /\ UNCHANGED mon_aux
    /\ UNCHANGED <<split_vars, awk_vars, nd_vars, alloc_vars, parse_vars, run_vars>>

\* what one pqos_mon_poll(groups, n) call leaves in the values of the groups
\* it was given: every one of them is filled by this call
poll_fill(vals, given, stamp) ==
    [g \in DOMAIN vals |-> IF g \in given THEN stamp ELSE vals[g]]

\* A mutant of the poll: only the first group is read.
PollFirstOnly ==
    /\ mon_pc = "poll"
    /\ \E ok \in BOOLEAN :
          IF ok
          THEN /\ polled' = polled \cup
                      {[phase |-> phase, tick |-> s, groups |-> groups, checked |-> checked]}
               /\ values' = poll_fill(values, {"group0"}, [phase |-> phase, tick |-> s])
               /\ mon_pc' = "write" /\ UNCHANGED <<exit_msg, lib_err>>
          ELSE /\ die("poll failed") /\ UNCHANGED <<polled, values>>
               /\ lib_err' = lib_err \cup {"poll"}
    /\ UNCHANGED <<phase, duration, s, wait_i, live, groups, checked, f1, f2>>
    /\ UNCHANGED seen
    /\ UNCHANGED <<split_vars, awk_vars, nd_vars, alloc_vars, parse_vars, run_vars>>

\* if (pqos_mon_poll(groups, 2) != PQOS_RETVAL_OK) die("pqos_mon_poll failed")
Poll ==
    /\ mon_pc = "poll"
    /\ \E ok \in BOOLEAN :
          IF ok
          THEN /\ polled' = polled \cup
                      {[phase |-> phase, tick |-> s, groups |-> groups, checked |-> checked]}
               /\ values' = poll_fill(values, GroupNames, [phase |-> phase, tick |-> s])
               /\ mon_pc' = "write" /\ UNCHANGED <<exit_msg, lib_err>>
          ELSE /\ die("poll failed") /\ UNCHANGED <<polled, values>>
               /\ lib_err' = lib_err \cup {"poll"}
    /\ UNCHANGED <<phase, duration, s, wait_i, live, groups, checked, f1, f2>>
    /\ UNCHANGED seen
    /\ UNCHANGED <<split_vars, awk_vars, nd_vars, alloc_vars, parse_vars, run_vars>>

\* ipc1 = group0.values.ipc; ... the two fprintf of "TIME <ts>" and the data
\* row, fflush, s++
WriteRows ==
    /\ mon_pc = "write"
    /\ f1' = [f1 EXCEPT ![phase].lines =
                 @ \o << [line |-> "TIME", tick |-> s],
                         [line |-> "row", tick |-> s, pid |-> "pid1",
                          group |-> "group0", poll |-> values["group0"]] >>]
    /\ f2' = [f2 EXCEPT ![phase].lines =
                 @ \o << [line |-> "TIME", tick |-> s],
                         [line |-> "row", tick |-> s, pid |-> "pid2",
                          group |-> "group1", poll |-> values["group1"]] >>]
    /\ s' = s + 1
    /\ mon_pc' = "loop"
    /\ UNCHANGED <<phase, duration, wait_i, live, groups, polled, checked, exit_msg>>
    /\ UNCHANGED mon_aux
    /\ UNCHANGED <<split_vars, awk_vars, nd_vars, alloc_vars, parse_vars, run_vars>>

\* pqos_mon_stop(&group0); pqos_mon_stop(&group1); fclose(f1); fclose(f2):
\* neither result of pqos_mon_stop is looked at
StopGroups ==
    /\ mon_pc = "stop"
    /\ \E failed \in SUBSET GroupNames :
          /\ groups' = { g \in groups : g.phase # phase \/ g.g \in failed }
          /\ lib_err' = lib_err \cup (IF failed = {} THEN {} ELSE {"stop"})
    /\ mon_pc' = "returned"
    /\ UNCHANGED <<phase, duration, s, wait_i, live, polled, checked, f1, f2, exit_msg>>
    /\ UNCHANGED <<values, seen>>
    /\ UNCHANGED <<split_vars, awk_vars, nd_vars, alloc_vars, parse_vars, run_vars>>

\* main() between the two calls: the tasks are returned to the default class,
\* COS1 and COS2 removed, PQoS re-initialised and monitoring reset; each step
\* dies on failure
BetweenPhases ==
    /\ mon_pc = "returned" /\ phase = 1 /\ main_pc = None
    /\ \E ok \in BOOLEAN :
          IF ok
          THEN /\ phase' = 2 /\ mon_pc' = "wait1" /\ s' = 0 /\ groups' = {}
               /\ seen' = {} /\ UNCHANGED exit_msg
          ELSE /\ die("cleanup failed") /\ UNCHANGED <<phase, s, groups, seen>>
    /\ UNCHANGED <<duration, wait_i, live, polled, checked, f1, f2>>
    /\ UNCHANGED <<values, lib_err>>
    /\ UNCHANGED <<split_vars, awk_vars, nd_vars, alloc_vars, parse_vars, run_vars>>

\* main(): pqos_fini(); return EXIT_SUCCESS
Finish ==
    /\ mon_pc = "returned" /\ phase = 2 /\ prog # "rdt"
    /\ mon_pc' = "exited"
    /\ UNCHANGED <<phase, duration, s, wait_i, live, groups, polled, checked, f1, f2, exit_msg>>
    /\ UNCHANGED mon_aux
    /\ UNCHANGED <<split_vars, awk_vars, nd_vars, alloc_vars, parse_vars, run_vars>>

\* the program has left main() or called exit()
Exited == main_pc = "died" \/ mon_pc \in {"died", "exited"}

\* the environment: a monitored process exits
ProcessExits ==
    /\ mon_pc # None \/ main_pc # None
    /\ ~Exited
    /\ \E p \in live : live' = live \ {p}
    /\ UNCHANGED <<mon_pc, phase, duration, s, wait_i, groups, polled, checked, f1, f2, exit_msg>>
    /\ UNCHANGED mon_aux
    /\ UNCHANGED <<split_vars, awk_vars, nd_vars, alloc_vars, parse_vars, run_vars>>

(***************************************************************************)
(* main() of the two partitioning programs after the split: the classes    *)
(* COS1 and COS2 of resctrl, their control strings and their members.      *)
(* Removing a class directory returns its members to the default class     *)
(* (resctrl); appending a pid to a tasks file moves a live process there.  *)
(***************************************************************************)
Classes == {"COS1", "COS2"}
DefaultTasks == "tasks"

mon_locals == <<mon_pc, phase, duration, s, wait_i, live, groups, polled,
                checked, f1, f2>>

\* die() called from main()
main_die(msg) ==
    /\ main_pc' = "died"
    /\ exit_msg' = msg

\* vm_cache_partition_monitor.c: "L3:<sock0>=0x0;L3:<sock1>=<mask>"
vm_schema(m) == [sock0 |-> {}, sock1 |-> m]

\* cos.c: "MB:0=80;1=80" in cos1_schema, "MB:0=20;1=20" in cos2_schema
cos_mb(c) == IF c = "COS1" THEN 80 ELSE 20

\* cos.c: "MB:0=<mb>;1=<mb>\nL2:0=ffff;...;83=ffff\nL3:<sock0>=<mask>;<sock1>=<mask>\n"
cos_schema(c, m) == [mb |-> cos_mb(c), l2 |-> "ffff", sock0 |-> m, sock1 |-> m]

\* the file main() appends a pid to after Phase 1: DEFAULT_TASKS in
\* vm_cache_partition_monitor.c, COS1_TASKS / COS2_TASKS in cos.c
return_file(c) == IF prog = "vm" THEN DefaultTasks ELSE c

\* the class a live process is in once its pid was appended to a tasks file
class_of(file) == IF file = DefaultTasks THEN "default" ELSE file

\* fopen() of a file of a class and rmdir() of a class fail when the class
\* directory does not exist; otherwise the call may succeed or fail
outcomes(file) ==
    IF file = DefaultTasks \/ file \in cos_dirs THEN BOOLEAN ELSE {FALSE}

\* detect_sockets(&sockets, &n_sockets) != 0 || n_sockets < 2
DetectSockets ==
    /\ main_pc = "split_done"
    /\ \E ok \in BOOLEAN :
          IF ok THEN main_pc' = "mkdir1" /\ UNCHANGED exit_msg
          ELSE main_die("sockets")
    /\ UNCHANGED <<prog, full_mask, mask1, mask2>>
    /\ UNCHANGED <<mon_locals, mon_aux, alloc_vars>>
    /\ UNCHANGED <<awk_vars, nd_vars, parse_vars, run_vars>>

\* if (mkdir_if_missing(COS1_DIR) != 0) die(...)
MkdirCos1 ==
    /\ main_pc = "mkdir1"
    /\ \E ok \in BOOLEAN :
          IF ok
          THEN /\ cos_dirs' = cos_dirs \cup {"COS1"}
               /\ main_pc' = "mkdir2" /\ UNCHANGED exit_msg
          ELSE main_die("mkdir") /\ UNCHANGED cos_dirs
    /\ UNCHANGED <<prog, full_mask, mask1, mask2>>
    /\ UNCHANGED <<mon_locals, mon_aux, schemata, tasks, appended>>
    /\ UNCHANGED <<awk_vars, nd_vars, parse_vars, run_vars>>

\* if (mkdir_if_missing(COS2_DIR) != 0) die(...)
MkdirCos2 ==
    /\ main_pc = "mkdir2"
    /\ \E ok \in BOOLEAN :
          IF ok
          THEN /\ cos_dirs' = cos_dirs \cup {"COS2"}
               /\ main_pc' = (IF prog = "cos" THEN "init" ELSE "schem1")
               /\ UNCHANGED exit_msg
          ELSE main_die("mkdir") /\ UNCHANGED cos_dirs
    /\ UNCHANGED <<prog, full_mask, mask1, mask2>>
    /\ UNCHANGED <<mon_locals, mon_aux, schemata, tasks, appended>>
    /\ UNCHANGED <<awk_vars, nd_vars, parse_vars, run_vars>>

\* pqos_init(&cfg) and pqos_mon_reset(), each fatal: before the schemata in
\* cos.c, after the membership appends in vm_cache_partition_monitor.c
PqosInit ==
    /\ main_pc = "init"
    /\ \E ok \in BOOLEAN :
          IF ok
          THEN /\ main_pc' = (IF prog = "cos" THEN "schem1" ELSE "phase1")
               /\ UNCHANGED exit_msg
          ELSE main_die("pqos_init")
    /\ UNCHANGED <<prog, full_mask, mask1, mask2>>
    /\ UNCHANGED <<mon_locals, mon_aux, alloc_vars>>
    /\ UNCHANGED <<awk_vars, nd_vars, parse_vars, run_vars>>

\* if (write_str_to_file(COS1_SCHEMATA, ...) != 0) die(...)
WriteSchemata1 ==
    /\ main_pc = "schem1"
    /\ \E ok \in outcomes("COS1") :
          IF ok
          THEN /\ schemata' = [schemata EXCEPT !["COS1"] =
                      << IF prog = "cos" THEN cos_schema("COS1", mask1) ELSE vm_schema(mask1) >>]
               /\ main_pc' = "schem2" /\ UNCHANGED exit_msg
          ELSE main_die("schemata") /\ UNCHANGED schemata
    /\ UNCHANGED <<prog, full_mask, mask1, mask2>>
    /\ UNCHANGED <<mon_locals, mon_aux, cos_dirs, tasks, appended>>
    /\ UNCHANGED <<awk_vars, nd_vars, parse_vars, run_vars>>

\* if (write_str_to_file(COS2_SCHEMATA, ...) != 0) die(...)
WriteSchemata2 ==
    /\ main_pc = "schem2"
    /\ \E ok \in outcomes("COS2") :
          IF ok
          THEN /\ schemata' = [schemata EXCEPT !["COS2"] =
                      << IF prog = "cos" THEN cos_schema("COS2", mask2) ELSE vm_schema(mask2) >>]
               /\ main_pc' = "find1" /\ UNCHANGED exit_msg
          ELSE main_die("schemata") /\ UNCHANGED schemata
    /\ UNCHANGED <<prog, full_mask, mask1, mask2>>
    /\ UNCHANGED <<mon_locals, mon_aux, cos_dirs, tasks, appended>>
    /\ UNCHANGED <<awk_vars, nd_vars, parse_vars, run_vars>>

\* the process ids of the two qemu processes
PidOf == ("pid1" :> 101) @@ ("pid2" :> 102)

\* find_vm_pid(vmname): the exact pattern finds the VM's own process; when it
\* finds nothing the looser pattern may find any qemu process, or nothing (-1)
find_vm_pid(own) ==
    IF own \in live THEN {PidOf[own]}
    ELSE {-1} \cup { PidOf[o] : o \in live }

\* A mutant of the sanity check: two equal ids are let through.
same_pid_never(a, b) == FALSE

\* if (pid1 == pid2) die(...)
same_pid(a, b) == a = b

\* pid1 = find_vm_pid(vm1); if (pid1 <= 0) die(...)
FindPid1 ==
    /\ main_pc = "find1"
    /\ \E r \in find_vm_pid("pid1") :
          /\ found' = <<r>>
          /\ IF r <= 0 THEN main_die("no pid")
             ELSE main_pc' = "find2" /\ UNCHANGED exit_msg
    /\ UNCHANGED <<prog, full_mask, mask1, mask2>>
    /\ UNCHANGED <<mon_locals, mon_aux, alloc_vars>>
    /\ UNCHANGED <<awk_vars, nd_vars, parse_vars, peer_pc, map_vars>>

\* pid2 = find_vm_pid(vm2); if (pid2 <= 0) die(...); if (pid1 == pid2) die(...)
FindPid2 ==
    /\ main_pc = "find2"
    /\ \E r \in find_vm_pid("pid2") :
          /\ found' = Append(found, r)
          /\ IF r <= 0 THEN main_die("no pid")
             ELSE IF same_pid(found[1], r) THEN main_die("same pid")
             ELSE main_pc' = "assign1" /\ UNCHANGED exit_msg
    /\ UNCHANGED <<prog, full_mask, mask1, mask2>>
    /\ UNCHANGED <<mon_locals, mon_aux, alloc_vars>>
    /\ UNCHANGED <<awk_vars, nd_vars, parse_vars, peer_pc, map_vars>>

\* what a successful append_str_to_file(file, pid) does
append_pid(file, pid) ==
    /\ appended' = appended \cup {[file |-> file, pid |-> pid]}
    /\ tasks' = IF pid \in live /\ (file = DefaultTasks \/ file \in cos_dirs)
                THEN [tasks EXCEPT ![pid] = class_of(file)]
                ELSE tasks

\* if (append_str_to_file(COS1_TASKS, buf) != 0) die(...)
AssignPid1 ==
    /\ main_pc = "assign1"
    /\ \E ok \in outcomes("COS1") :
          IF ok
          THEN /\ append_pid("COS1", "pid1")
               /\ main_pc' = "assign2" /\ UNCHANGED exit_msg
          ELSE main_die("append") /\ UNCHANGED <<tasks, appended>>
    /\ UNCHANGED <<prog, full_mask, mask1, mask2>>
    /\ UNCHANGED <<mon_locals, mon_aux, cos_dirs, schemata>>
    /\ UNCHANGED <<awk_vars, nd_vars, parse_vars, run_vars>>

\* if (append_str_to_file(COS2_TASKS, buf) != 0) die(...)
AssignPid2 ==
    /\ main_pc = "assign2"
    /\ \E ok \in outcomes("COS2") :
          IF ok
          THEN /\ append_pid("COS2", "pid2")
               /\ main_pc' = (IF prog = "vm" THEN "init" ELSE "phase1")
               /\ UNCHANGED exit_msg
          ELSE main_die("append") /\ UNCHANGED <<tasks, appended>>
    /\ UNCHANGED <<prog, full_mask, mask1, mask2>>
    /\ UNCHANGED <<mon_locals, mon_aux, cos_dirs, schemata>>
    /\ UNCHANGED <<awk_vars, nd_vars, parse_vars, run_vars>>

\* monitor_pids_pair(pid1, pid2, duration, "VM1_half_baseline.txt", ...)
EnterPhase1 ==
    /\ main_pc = "phase1"
    /\ main_pc' = "monitor1"
    /\ mon_pc' = "wait1" /\ phase' = 1 /\ s' = 0 /\ wait_i' = 0 /\ seen' = {}
    /\ UNCHANGED <<prog, full_mask, mask1, mask2>>
    /\ UNCHANGED <<duration, live, groups, polled, checked, f1, f2, exit_msg>>
    /\ UNCHANGED <<values, lib_err, alloc_vars>>
    /\ UNCHANGED <<awk_vars, nd_vars, parse_vars, run_vars>>

\* after Phase 1: pqos_mon_reset() (result not looked at), then
\* if (append_str_to_file(<tasks file>, pid1) != 0) die(...)
ReturnPid1 ==
    /\ main_pc = "monitor1" /\ mon_pc = "returned"
    /\ \E reset_ok \in BOOLEAN : groups' = IF reset_ok THEN {} ELSE groups
    /\ \E ok \in outcomes(return_file("COS1")) :
          IF ok
          THEN /\ append_pid(return_file("COS1"), "pid1")
               /\ main_pc' = "ret2" /\ UNCHANGED exit_msg
          ELSE main_die("append") /\ UNCHANGED <<tasks, appended>>
    /\ UNCHANGED <<prog, full_mask, mask1, mask2>>
    /\ UNCHANGED <<mon_pc, phase, duration, s, wait_i, live, polled, checked, f1, f2>>
    /\ UNCHANGED <<mon_aux, cos_dirs, schemata>>
    /\ UNCHANGED <<awk_vars, nd_vars, parse_vars, run_vars>>

\* if (append_str_to_file(<tasks file>, pid2) != 0) die(...)
ReturnPid2 ==
    /\ main_pc = "ret2"
    /\ \E ok \in outcomes(return_file("COS2")) :
          IF ok
          THEN /\ append_pid(return_file("COS2"), "pid2")
               /\ main_pc' = "rmdir1" /\ UNCHANGED exit_msg
          ELSE main_die("append") /\ UNCHANGED <<tasks, appended>>
    /\ UNCHANGED <<prog, full_mask, mask1, mask2>>
    /\ UNCHANGED <<mon_locals, mon_aux, cos_dirs, schemata>>
    /\ UNCHANGED <<awk_vars, nd_vars, parse_vars, run_vars>>

\* what a successful rmdir(<class directory>) does
remove_class(c) ==
    /\ cos_dirs' = cos_dirs \ {c}
    /\ schemata' = [schemata EXCEPT ![c] = <<>>]
    /\ tasks' = [p \in DOMAIN tasks |-> IF tasks[p] = c THEN "default" ELSE tasks[p]]

\* if (rmdir(COS1_DIR) != 0) die(...)
RmdirCos1 ==
    /\ main_pc = "rmdir1"
    /\ \E ok \in outcomes("COS1") :
          IF ok
          THEN /\ remove_class("COS1")
               /\ main_pc' = "rmdir2" /\ UNCHANGED exit_msg
          ELSE main_die("rmdir") /\ UNCHANGED <<cos_dirs, schemata, tasks>>
    /\ UNCHANGED <<prog, full_mask, mask1, mask2>>
    /\ UNCHANGED <<mon_locals, mon_aux, appended>>
    /\ UNCHANGED <<awk_vars, nd_vars, parse_vars, run_vars>>

\* if (rmdir(COS2_DIR) != 0) die(...)
RmdirCos2 ==
    /\ main_pc = "rmdir2"
    /\ \E ok \in outcomes("COS2") :
          IF ok
          THEN /\ remove_class("COS2")
               /\ main_pc' = "reinit" /\ UNCHANGED exit_msg
          ELSE main_die("rmdir") /\ UNCHANGED <<cos_dirs, schemata, tasks>>
    /\ UNCHANGED <<prog, full_mask, mask1, mask2>>
    /\ UNCHANGED <<mon_locals, mon_aux, appended>>
    /\ UNCHANGED <<awk_vars, nd_vars, parse_vars, run_vars>>

\* pqos_fini(); pqos_init(&cfg) and pqos_mon_reset(), each fatal; then
\* monitor_pids_pair(pid1, pid2, duration, "VM1_normal.txt", "VM2_normal.txt")
Reinit ==
    /\ main_pc = "reinit"
    /\ \E ok \in BOOLEAN :
          IF ok
          THEN /\ main_pc' = "monitor2"
               /\ groups' = {}
               /\ mon_pc' = "wait1" /\ phase' = 2 /\ s' = 0 /\ wait_i' = 0
               /\ seen' = {} /\ UNCHANGED exit_msg
          ELSE /\ main_die("pqos_init")
               /\ UNCHANGED <<groups, mon_pc, phase, s, wait_i, seen>>
    /\ UNCHANGED <<prog, full_mask, mask1, mask2>>
    /\ UNCHANGED <<duration, live, polled, checked, f1, f2>>
    /\ UNCHANGED <<values, lib_err, alloc_vars>>
    /\ UNCHANGED <<awk_vars, nd_vars, parse_vars, run_vars>>

(***************************************************************************)
(* run_rdt.c: monitor_cores, one group of cores and one output file, and   *)
(* the three calls main() makes of it.                                     *)
(***************************************************************************)
RdtPhases == {1, 2, 3}

\* if (pqos_mon_start_cores(nc, cores, ev, NULL, &group) != PQOS_RETVAL_OK) die
CoreStart ==
    /\ mon_pc = "c_start"
    /\ \E ok \in BOOLEAN :
          IF ok
          THEN /\ groups' = groups \cup {Started("group0")}
               /\ mon_pc' = "c_open" /\ UNCHANGED <<exit_msg, lib_err>>
          ELSE /\ die("start failed") /\ UNCHANGED groups
               /\ lib_err' = lib_err \cup {"start"}
    /\ UNCHANGED <<phase, duration, s, wait_i, live, polled, checked, f1, f2>>
    /\ UNCHANGED <<values, seen>>
    /\ UNCHANGED <<split_vars, awk_vars, nd_vars, alloc_vars, parse_vars, run_vars>>

\* FILE *f = fopen(outfile, "w"); if (!f) die(...)
CoreOpen ==
    /\ mon_pc = "c_open"
    /\ \E ok \in BOOLEAN :
          IF ok
          THEN /\ f1' = [f1 EXCEPT ![phase] = [exists |-> TRUE, lines |-> <<>>]]
               /\ mon_pc' = "c_header" /\ UNCHANGED exit_msg
          ELSE /\ die("fopen failed") /\ UNCHANGED f1
    /\ UNCHANGED <<phase, duration, s, wait_i, live, groups, polled, checked, f2>>
    /\ UNCHANGED mon_aux
    /\ UNCHANGED <<split_vars, awk_vars, nd_vars, alloc_vars, parse_vars, run_vars>>

\* the fprintf of the header line; s = 0 of the for loop
CoreHeader ==
    /\ mon_pc = "c_header"
    /\ f1' = [f1 EXCEPT ![phase].lines = Append(@, [line |-> "header"])]
    /\ s' = 0
    /\ mon_pc' = "c_loop"
    /\ UNCHANGED <<phase, duration, wait_i, live, groups, polled, checked, f2, exit_msg>>
    /\ UNCHANGED mon_aux
    /\ UNCHANGED <<split_vars, awk_vars, nd_vars, alloc_vars, parse_vars, run_vars>>

\* for (...; s < duration; ...) { sleep(1);
CoreLoop ==
    /\ mon_pc = "c_loop"
    /\ mon_pc' = IF s < duration THEN "c_poll" ELSE "c_stop"
    /\ UNCHANGED <<phase, duration, s, wait_i, live, groups, polled, checked, f1, f2, exit_msg>>
    /\ UNCHANGED mon_aux
    /\ UNCHANGED <<split_vars, awk_vars, nd_vars, alloc_vars, parse_vars, run_vars>>

\* if (pqos_mon_poll(&group, 1) != PQOS_RETVAL_OK) die("pqos_mon_poll")
CorePoll ==
    /\ mon_pc = "c_poll"
    /\ \E ok \in BOOLEAN :
          IF ok
          THEN /\ polled' = polled \cup
                      {[phase |-> phase, tick |-> s, groups |-> groups, checked |-> {}]}
               /\ values' = poll_fill(values, {"group0"}, [phase |-> phase, tick |-> s])
               /\ mon_pc' = "c_write" /\ UNCHANGED <<exit_msg, lib_err>>
          ELSE /\ die("poll failed") /\ UNCHANGED <<polled, values>>
               /\ lib_err' = lib_err \cup {"poll"}
    /\ UNCHANGED <<phase, duration, s, wait_i, live, groups, checked, f1, f2>>
    /\ UNCHANGED seen
    /\ UNCHANGED <<split_vars, awk_vars, nd_vars, alloc_vars, parse_vars, run_vars>>

\* ipc = group->values.ipc; ... the fprintf of "TIME <ts>" and the data row,
\* fflush, s++
CoreWrite ==
    /\ mon_pc = "c_write"
    /\ f1' = [f1 EXCEPT ![phase].lines =
                 @ \o << [line |-> "TIME", tick |-> s],
                         [line |-> "row", tick |-> s, pid |-> "cores",
                          group |-> "group0", poll |-> values["group0"]] >>]
    /\ s' = s + 1
    /\ mon_pc' = "c_loop"
    /\ UNCHANGED <<phase, duration, wait_i, live, groups, polled, checked, f2, exit_msg>>
    /\ UNCHANGED mon_aux
    /\ UNCHANGED <<split_vars, awk_vars, nd_vars, alloc_vars, parse_vars, run_vars>>

\* A mutant of the stop: its result is not looked at.
CoreStopIgnored ==
    /\ mon_pc = "c_stop"
    /\ \E ok \in BOOLEAN :
          /\ groups' = IF ok THEN groups \ {Started("group0")} ELSE groups
          /\ lib_err' = IF ok THEN lib_err ELSE lib_err \cup {"stop"}
    /\ mon_pc' = "returned"
    /\ UNCHANGED <<phase, duration, s, wait_i, live, polled, checked, f1, f2, exit_msg>>
    /\ UNCHANGED <<values, seen>>
    /\ UNCHANGED <<split_vars, awk_vars, nd_vars, alloc_vars, parse_vars, run_vars>>

\* if (pqos_mon_stop(group) != PQOS_RETVAL_OK) die("pqos_mon_stop"); fclose(f)
CoreStop ==
    /\ mon_pc = "c_stop"
    /\ \E ok \in BOOLEAN :
          IF ok
          THEN /\ groups' = groups \ {Started("group0")}
               /\ mon_pc' = "returned" /\ UNCHANGED <<exit_msg, lib_err>>
          ELSE /\ die("stop failed") /\ UNCHANGED groups
               /\ lib_err' = lib_err \cup {"stop"}
    /\ UNCHANGED <<phase, duration, s, wait_i, live, polled, checked, f1, f2>>
    /\ UNCHANGED <<values, seen>>
    /\ UNCHANGED <<split_vars, awk_vars, nd_vars, alloc_vars, parse_vars, run_vars>>

\* main(): if (pqos_init(&cfg) != OK) die; if (pqos_mon_reset() != OK) die
RdtInit ==
    /\ main_pc = "rdt_init"
    /\ \E ok \in BOOLEAN :
          IF ok THEN main_pc' = "rdt_setup" /\ UNCHANGED exit_msg
          ELSE main_die("pqos_init")
    /\ UNCHANGED <<prog, full_mask, mask1, mask2>>
    /\ UNCHANGED <<mon_locals, mon_aux, alloc_vars>>
    /\ UNCHANGED <<awk_vars, nd_vars, parse_vars, run_vars>>

\* main(): the run_cmd calls that pin the vCPUs and launch the victim; every
\* command that fails is fatal
RdtSetup ==
    /\ main_pc = "rdt_setup"
    /\ \E ok \in BOOLEAN :
          IF ok THEN main_pc' = "rdt_phase" /\ UNCHANGED exit_msg
          ELSE main_die("command failed")
    /\ UNCHANGED <<prog, full_mask, mask1, mask2>>
    /\ UNCHANGED <<mon_locals, mon_aux, alloc_vars>>
    /\ UNCHANGED <<awk_vars, nd_vars, parse_vars, run_vars>>

\* main(): what precedes each call of monitor_cores, and the call: the
\* adversary is launched before Phase 2 (run_cmd, fatal) and torn down before
\* Phase 3 (system, results not looked at); pqos_mon_reset() (result not
\* looked at); monitor_cores(CSTART, N, DUR, <file of the phase>)
RdtEnterPhase ==
    /\ main_pc = "rdt_phase"
    /\ mon_pc = None \/ (mon_pc = "returned" /\ phase < 3)
    /\ \E ok \in BOOLEAN, reset_ok \in BOOLEAN :
          IF phase = 1 /\ ~ok
          THEN /\ reset_ok
               /\ main_die("command failed")
               /\ UNCHANGED <<mon_pc, phase, s, groups>>
          ELSE /\ ok
               /\ groups' = IF reset_ok THEN {} ELSE groups
               /\ mon_pc' = "c_start" /\ phase' = phase + 1 /\ s' = 0
               /\ UNCHANGED <<main_pc, exit_msg>>
    /\ UNCHANGED <<prog, full_mask, mask1, mask2>>
    /\ UNCHANGED <<duration, wait_i, live, polled, checked, f1, f2>>
    /\ UNCHANGED <<mon_aux, alloc_vars>>
    /\ UNCHANGED <<awk_vars, nd_vars, parse_vars, run_vars>>

\* main(): run_cmd that kills the victim (fatal if it fails); pqos_fini();
\* return 0
RdtFinish ==
    /\ main_pc = "rdt_phase" /\ mon_pc = "returned" /\ phase = 3
    /\ \E ok \in BOOLEAN :
          IF ok THEN mon_pc' = "exited" /\ UNCHANGED <<main_pc, exit_msg>>
          ELSE main_die("command failed") /\ UNCHANGED mon_pc
    /\ UNCHANGED <<prog, full_mask, mask1, mask2>>
    /\ UNCHANGED <<phase, duration, s, wait_i, live, groups, polled, checked, f1, f2>>
    /\ UNCHANGED <<mon_aux, alloc_vars>>
    /\ UNCHANGED <<awk_vars, nd_vars, parse_vars, run_vars>>

(***************************************************************************)
(* The MISSES field as the two log parsers read it.                        *)
(***************************************************************************)
Suffixes == {"", "k", "K", "m", "M"}
Tokens == { [digits |-> d, suffix |-> x] : d \in 0 .. MaxMisDigits, x \in Suffixes }
Parsers == {"core_map", "noisy_detector"}

\* noisy_detector.sh: gsub(/k$/,"000",$4); gsub(/m$/,"000000",$4); $4+0
nd_expand_mis(tok) ==
    LET t1 == gsub_suffix(tok, "k", 3)
        t2 == gsub_suffix(t1, "m", 6)
    IN t2.digits

\* a data line of the log reaches the parser
ParseMis ==
    /\ parser # None /\ mis_tok # <<>> /\ mis_val = <<>>
    /\ mis_val' = << IF parser = "core_map" THEN expand_mis(mis_tok[1])
                     ELSE nd_expand_mis(mis_tok[1]) >>
    /\ UNCHANGED <<parser, mis_tok, miss>>
    /\ UNCHANGED <<split_vars, awk_vars, nd_vars, mon_vars, mon_aux, alloc_vars, run_vars>>

(***************************************************************************)
(* Specifications.                                                         *)
(***************************************************************************)
InitSplit ==
    /\ prog \in {"cos", "vm"}
    /\ main_pc = "read_mask"
    /\ full_mask = {} /\ mask1 = {} /\ mask2 = {}
    /\ alloc_idle
    /\ score_idle /\ mon_idle

NextSplit == ReadMask \/ CheckWays \/ SplitMask

SpecSplit == InitSplit /\ [][NextSplit]_vars

InitScripts(rp) ==
    /\ split_idle /\ mon_idle /\ parse_idle
    /\ K \in Ks
    /\ replay = rp
    /\ \/ /\ script = "core_map"
          /\ awk_order \in Perms(Labels)
          /\ awk_pc = "begin" /\ idx = Uninit /\ have_block = FALSE
          /\ block = <<>> /\ rows_read = <<>> /\ first_tick = TRUE /\ out = <<>>
          /\ last_tick = <<>> /\ prev_tick = <<>>
          /\ nd_idle
       \/ /\ script = "noisy_detector"
          /\ ~rp
          /\ awk_order = <<>> /\ awk_pc = None /\ idx = Uninit /\ have_block = FALSE
          /\ block = <<>> /\ rows_read = <<>> /\ first_tick = TRUE /\ out = <<>>
          /\ last_tick = <<>> /\ prev_tick = <<>>
          /\ agg \in Aggs /\ nd_out = <<>>

InitScore == InitScripts(FALSE)

NextScore == ReadTime \/ ReadRow \/ End \/ ScoreAgg

SpecScore == InitScore /\ [][NextScore]_vars

IsPrefix(a, b) == Len(a) <= Len(b) /\ \A i \in 1 .. Len(a) : a[i] = b[i]

\* the log of a replay run: every tick repeats the rows of the first one
SameTickAgain ==
    /\ last_tick # <<>> => IsPrefix(rows_read', last_tick[1].rows)
    /\ (last_tick # <<>> /\ out' # <<>>) => rows_read = last_tick[1].rows

InitReplay == InitScripts(TRUE)

NextReplay ==
    \/ ReadTime /\ SameTickAgain
    \/ ReadRow /\ SameTickAgain
    \/ End /\ SameTickAgain

SpecReplay == InitReplay /\ [][NextReplay]_vars

InitMon ==
    /\ split_idle /\ score_idle
    /\ mon_pc = "wait1" /\ phase = 1
    /\ duration \in 1 .. MaxDuration
    /\ s = 0 /\ wait_i = 0
    /\ live \in SUBSET Pids
    /\ groups = {} /\ polled = {} /\ checked = {}
    /\ f1 = [p \in Phases |-> NoFile] /\ f2 = [p \in Phases |-> NoFile]
    /\ exit_msg = None
    /\ values = [g \in GroupNames |-> NoPoll] /\ seen = {} /\ lib_err = {}

NextMon ==
    \/ WaitPid1 \/ WaitPid2 \/ StartGroup0 \/ StartGroup1 \/ OpenFile1 \/ OpenFile2
    \/ WriteHeader \/ LoopTest \/ CheckPid1 \/ CheckPid2 \/ Poll \/ WriteRows
    \/ StopGroups \/ BetweenPhases \/ Finish \/ ProcessExits

SpecMon == InitMon /\ [][NextMon]_vars

\* the capacity masks read in the runs of the whole program
RunMasks == {{}, {0}, {0, 1}, {1, 3, 63}}

InitRun ==
    /\ prog \in {"cos", "vm", "rdt"}
    /\ main_pc = (IF prog = "rdt" THEN "rdt_init" ELSE "read_mask")
    /\ full_mask = {} /\ mask1 = {} /\ mask2 = {}
    /\ cos_dirs = {} /\ schemata = [c \in Classes |-> <<>>]
    /\ tasks = [p \in Pids |-> "default"] /\ appended = {}
    /\ found = <<>> /\ peer_pc = None /\ map_idle
    /\ score_idle
    /\ mon_pc = None /\ phase = 0
    /\ duration \in 1 .. MaxDuration
    /\ s = 0 /\ wait_i = 0
    /\ live \in (IF prog = "rdt" THEN {{}} ELSE SUBSET Pids)
    /\ groups = {} /\ polled = {} /\ checked = {}
    /\ f1 = [p \in RdtPhases |-> NoFile] /\ f2 = [p \in RdtPhases |-> NoFile]
    /\ exit_msg = None
    /\ values = [g \in GroupNames |-> NoPoll] /\ seen = {} /\ lib_err = {}

NextRun ==
    \/ ReadMask /\ full_mask' \in RunMasks
    \/ CheckWays \/ SplitMask \/ DetectSockets \/ MkdirCos1 \/ MkdirCos2
    \/ PqosInit \/ WriteSchemata1 \/ WriteSchemata2 \/ FindPid1 \/ FindPid2
    \/ AssignPid1 \/ AssignPid2 \/ EnterPhase1
    \/ WaitPid1 \/ WaitPid2 \/ StartGroup0 \/ StartGroup1 \/ OpenFile1 \/ OpenFile2
    \/ WriteHeader \/ LoopTest \/ CheckPid1 \/ CheckPid2 \/ Poll \/ WriteRows
    \/ StopGroups
    \/ ReturnPid1 \/ ReturnPid2 \/ RmdirCos1 \/ RmdirCos2 \/ Reinit \/ Finish
    \/ RdtInit \/ RdtSetup \/ RdtEnterPhase \/ RdtFinish
    \/ CoreStart \/ CoreOpen \/ CoreHeader \/ CoreLoop \/ CorePoll \/ CoreWrite
    \/ CoreStop
    \/ ProcessExits

SpecRun == InitRun /\ [][NextRun]_vars

InitParse ==
    /\ split_idle /\ mon_idle
    /\ script = None /\ K = 0 /\ awk_idle /\ nd_idle
    /\ parser \in Parsers
    /\ mis_tok \in { <<t>> : t \in Tokens }
    /\ mis_val = <<>> /\ miss = <<>>

NextParse == ParseMis

SpecParse == InitParse /\ [][NextParse]_vars

(***************************************************************************)
(* Properties of split_mask (SpecSplit).                                   *)
(***************************************************************************)
SplitDone == main_pc = "split_done"

\* C1: for every full mask, in both programs, the two shares returned by
\* split_mask cover the full mask (mask1 | mask2 == M) and are disjoint
\* (mask1 & mask2 == 0).
SplitCoversAndDisjoint ==
    SplitDone => /\ mask1 \cup mask2 = full_mask
                 /\ mask1 \cap mask2 = {}

SplitCoversWitness ==
    /\ SplitDone /\ prog = "vm"
    /\ 0 \in mask1 /\ 63 \in mask2 /\ 1 \notin full_mask

Ratios == {<<1, 4>>, <<1, 3>>, <<1, 2>>, <<3, 4>>}

\* C2 as stated: for every nonzero mask and every ratio r in (0,1) the low
\* share has floor(popcount(M) * r) bits.
SplitRatioPopcount ==
    (SplitDone /\ full_mask # {}) =>
        \A r \in Ratios :
            Cardinality(mask1) = (Cardinality(full_mask) * r[1]) \div r[2]

\* C2 as amended: split_mask takes no ratio; for every nonzero mask the low
\* share has floor(popcount(M) / 2) bits, and a mask with exactly one set bit
\* yields an empty low share and the whole mask as the high share.
SplitHalfPopcount ==
    (SplitDone /\ full_mask # {}) =>
        /\ Cardinality(mask1) = Cardinality(full_mask) \div 2
        /\ Cardinality(full_mask) = 1 => (mask1 = {} /\ mask2 = full_mask)

SplitSingleBitWitness ==
    /\ SplitDone /\ prog = "cos"
    /\ full_mask = {63} /\ mask1 = {} /\ mask2 = {63}

\* C3: mask1 is exactly the `half` lowest-positioned set bits of the full mask:
\* every bit of either share is a bit of the full mask at its own position,
\* and every set bit of mask1 lies below every set bit of mask2.
SplitLowBitsFirst ==
    SplitDone =>
        /\ mask1 = { b \in full_mask :
                       Cardinality({c \in full_mask : c < b})
                           < Cardinality(full_mask) \div 2 }
        /\ mask2 = full_mask \ mask1
        /\ \A a \in mask1, b \in mask2 : a < b

SplitLowBitsWitness ==
    /\ SplitDone /\ prog = "cos"
    /\ full_mask = {1, 3, 31, 32, 62}
    /\ mask1 = {1, 3} /\ mask2 = {31, 32, 62}

(***************************************************************************)
(* Properties of the scoring scripts (SpecScore, SpecReplay).              *)
(***************************************************************************)
Range(q) == { q[i] : i \in DOMAIN q }

\* the per-process samples a scorer was given, in the shape
\* [process, bw, occ, mis, Occ, Harm, Noise]
ScoredSamples ==
    IF out # <<>>
    THEN { [process |-> r.process, bw |-> r.MBL_sum + r.MBR_sum, occ |-> r.LLC_KB_sum,
            mis |-> r.MISSES_sum, Occ |-> r.Occ_Score, Harm |-> r.Harm_Score,
            Noise |-> r.Noise_Score] : r \in Range(out[1].records) }
    ELSE IF nd_out # <<>>
    THEN { [process |-> r.process, bw |-> r.MBW, occ |-> r.LLC, mis |-> r.MIS,
            Occ |-> r.Occ_Score, Harm |-> r.Harm_Score,
            Noise |-> r.Noise_Score] : r \in Range(nd_out[1].records) }
    ELSE {}

Total(S, field) ==
    LET ps == { x.process : x \in S }
        v == [p \in ps |-> (CHOOSE x \in S : x.process = p)[field]]
        sum == SumOver(v, ps)
    IN IF sum = 0 THEN 1 ELSE sum

\* C4: in both scoring scripts, for every process of a tick,
\* NoiseScore = (bw/sumBW + occ/sumOcc) + K * (miss/sumMiss), OccupancyScore is
\* the bracket and HarmScore is miss/sumMiss; the sums range over the
\* processes of the tick and a sum of zero is replaced by 1.
NoiseFormula ==
    LET S == ScoredSamples
        sB == Total(S, "bw")
        sO == Total(S, "occ")
        sM == Total(S, "mis")
    IN \A x \in S :
          /\ x.Occ.num * (sB * sO) = x.Occ.den * (x.bw * sO + x.occ * sB)
          /\ x.Harm.num * sM = x.Harm.den * x.mis
          /\ x.Noise.num * (sB * sO * sM)
                = x.Noise.den * (x.bw * sO * sM + x.occ * sB * sM + K * x.mis * sB * sO)

NoiseFormulaWitness ==
    /\ K = 2
    /\ out # <<>>
    /\ \E i, j \in DOMAIN out[1].records :
          /\ out[1].records[i].Noise_Score # out[1].records[j].Noise_Score
          /\ out[1].records[i].Harm_Score.num > 0
          /\ out[1].records[j].Harm_Score.num > 0

\* what a script reported: <<records, culprit, maxN>>
Verdicts ==
    (IF out # <<>> THEN {out[1]} ELSE {}) \cup (IF nd_out # <<>> THEN {nd_out[1]} ELSE {})

\* C5 as stated: the verdict of a tick is the process with the maximum
\* NoiseScore among the processes of that tick, the first one in
\* iteration/insertion order among those that share the maximum.
VerdictIsFirstMax ==
    \A v \in Verdicts :
        v.records # <<>> =>
            \E i \in DOMAIN v.records :
                /\ v.culprit = v.records[i].process
                /\ v.maxN = v.records[i].Noise_Score
                /\ \A j \in DOMAIN v.records :
                      /\ ~FGt(v.records[j].Noise_Score, v.records[i].Noise_Score)
                      /\ j < i => FGt(v.records[i].Noise_Score, v.records[j].Noise_Score)

\* the label the target-to-process map gives a row
RowLabel(r) ==
    IF r.core = 24 THEN "proc1"
    ELSE IF r.core \in 25 .. 32 THEN "proc2"
    ELSE "unmapped"

\* the sum of one field over the rows of a tick that carry label l
RowSum(rows, l, val(_)) ==
    LET ix == { i \in DOMAIN rows : RowLabel(rows[i]) = l }
    IN SumOver([i \in ix |-> val(rows[i])], ix)

RowTotal(rows, val(_)) ==
    SumOver([i \in DOMAIN rows |-> val(rows[i])], DOMAIN rows)

Llc(r) == r.llc
Ipc(r) == r.ipc
Mbl(r) == r.mbl
Mbr(r) == r.mbr
Mis(r) == r.mis.digits * (IF r.mis.suffix \in {"k", "K"} THEN 1000
                          ELSE IF r.mis.suffix \in {"m", "M"} THEN 1000000 ELSE 1)

\* C6 as stated: for every tick of the log, the first included, the sum over
\* processes of LLC_KB_sum equals the sum of the occupancy of every data row
\* of the tick.
OccupancyConserved ==
    out # <<>> =>
        SumOver([i \in DOMAIN out[1].records |-> out[1].records[i].LLC_KB_sum],
                DOMAIN out[1].records)
            = RowTotal(out[1].rows, Llc)

\* C7 as stated: for every tick and every label, each aggregated field is the
\* sum of that field over exactly the rows of the tick whose target maps to
\* the label.
FieldsAreRowSums ==
    out # <<>> =>
        \A l \in { RowLabel(r) : r \in Range(out[1].rows) } :
            \E i \in DOMAIN out[1].records :
                LET rec == out[1].records[i]
                IN /\ rec.process = l
                   /\ rec.IPC_sum = RowSum(out[1].rows, l, Ipc)
                   /\ rec.MISSES_sum = RowSum(out[1].rows, l, Mis)
                   /\ rec.LLC_KB_sum = RowSum(out[1].rows, l, Llc)
                   /\ rec.MBL_sum = RowSum(out[1].rows, l, Mbl)
                   /\ rec.MBR_sum = RowSum(out[1].rows, l, Mbr)

\* C8 as stated: two ticks with identical rows produce identical records and
\* the same verdict, whatever their position in the log.
SameRowsSameOutput ==
    (prev_tick # <<>> /\ last_tick # <<>> /\ prev_tick[1].rows = last_tick[1].rows) =>
        /\ prev_tick[1].records = last_tick[1].records
        /\ prev_tick[1].culprit = last_tick[1].culprit
        /\ prev_tick[1].maxN = last_tick[1].maxN

\* C9 as stated: a row whose target is absent from the map is counted under
\* "unmapped"; it is never dropped from the aggregation of its tick.
UnmappedRowsCounted ==
    (out # <<>> /\ \E r \in Range(out[1].rows) : r.core \notin DOMAIN core2proc) =>
        \E i \in DOMAIN out[1].records :
            LET rec == out[1].records[i]
            IN /\ rec.process = "unmapped"
               /\ rec.IPC_sum = RowSum(out[1].rows, "unmapped", Ipc)
               /\ rec.MISSES_sum = RowSum(out[1].rows, "unmapped", Mis)
               /\ rec.LLC_KB_sum = RowSum(out[1].rows, "unmapped", Llc)
               /\ rec.MBL_sum = RowSum(out[1].rows, "unmapped", Mbl)
               /\ rec.MBR_sum = RowSum(out[1].rows, "unmapped", Mbr)

(***************************************************************************)
(* Properties of the polling loop (SpecMon).                               *)
(***************************************************************************)
RowTicks(f) ==
    { f.lines[i].tick : i \in { j \in DOMAIN f.lines : f.lines[j].line # "header" } }

\* C10: every poll of a tick follows a liveness check of every monitored
\* process in that tick, and once a check finds a target gone the run has
\* died: that tick was not polled, no line of that tick is in either file,
\* and no later tick was polled or written.
LivenessAbort ==
    /\ \A e \in polled : e.checked = Pids
    /\ mon_pc \in {"poll", "write"} => checked = Pids
    /\ exit_msg = "disappeared" =>
          /\ mon_pc = "died"
          /\ \A e \in polled : e.phase < phase \/ (e.phase = phase /\ e.tick < s)
          /\ \A t \in RowTicks(f1[phase]) \cup RowTicks(f2[phase]) : t < s
          /\ \A p \in Phases : p > phase => ~f1[p].exists /\ ~f2[p].exists

LivenessAbortWitness ==
    /\ exit_msg = "disappeared"
    /\ phase = 2 /\ s = 1
    /\ "pid1" \in live /\ "pid2" \notin live
    /\ Len(f2[2].lines) = 3

(***************************************************************************)
(* Properties of the whole run of the three C programs (SpecRun).          *)
(***************************************************************************)
\* the monitoring call of the current phase ended in die()
PhaseFailed == mon_pc = "died" /\ phase \in RdtPhases

\* C11: when a monitoring phase has failed, neither output file of that
\* phase holds any content: no header line and no sampled tick.
NoPartialOutput ==
    PhaseFailed => Len(f1[phase].lines) = 0 /\ Len(f2[phase].lines) = 0

\* C12: once the program has exited, on whatever path, every process is a
\* member of the default class and neither COS1 nor COS2 exists.
TeardownOnExit ==
    (prog \in {"cos", "vm"} /\ Exited) =>
        /\ cos_dirs = {}
        /\ \A p \in Pids : tasks[p] = "default"

\* C13: when Phase 2 begins (and so before any of its groups is started) the
\* pid of each of the two processes has been appended to the default tasks
\* file and both classes have been removed.
TeardownBeforePhase2 ==
    (prog \in {"cos", "vm"} /\ phase = 2) =>
        /\ \A p \in Pids : [file |-> DefaultTasks, pid |-> p] \in appended
        /\ cos_dirs = {}

\* C14: once a mask with no set bit has been read, the program is on its way
\* to a fatal exit and has created no class, written no control string and
\* assigned no process.
ZeroMaskFatal ==
    (prog \in {"cos", "vm"} /\ main_pc \notin {None, "read_mask"} /\ full_mask = {}) =>
        /\ main_pc \in {"check_ways", "died"}
        /\ cos_dirs = {}
        /\ \A c \in Classes : schemata[c] = <<>>
        /\ appended = {}

\* C15: a group of the current phase is active only if wait_for_pid saw
\* every target live in this call; a wait makes at most WaitTimeout attempts;
\* and a wait that ran out has ended the run, after exactly WaitTimeout
\* attempts, with no group of the phase started and no file of it opened.
WaitBeforeStart ==
    /\ wait_i < WaitTimeout
    /\ prog # "rdt" => \A g \in groups : g.phase = phase => seen = Pids
    /\ exit_msg = "not running" =>
          /\ mon_pc = "died"
          /\ wait_i = WaitTimeout - 1
          /\ seen # Pids
          /\ \A g \in groups : g.phase # phase
          /\ ~f1[phase].exists /\ ~f2[phase].exists

WaitBeforeStartWitness ==
    /\ exit_msg = "not running"
    /\ phase = 2 /\ seen = {"pid1"}
    /\ wait_i = WaitTimeout - 1

\* the lines a file holds after D error-free ticks: the header, then for
\* every tick 0..D-1 its timestamp line and its data row
HoldsBlocks(f, D) ==
    /\ f.exists
    /\ Len(f.lines) = 1 + 2 * D
    /\ f.lines[1].line = "header"
    /\ \A t \in 0 .. D - 1 :
          /\ f.lines[2 + 2 * t].line = "TIME" /\ f.lines[2 + 2 * t].tick = t
          /\ f.lines[3 + 2 * t].line = "row" /\ f.lines[3 + 2 * t].tick = t

\* C16: a monitoring call that returned ran exactly `duration` ticks, polled
\* once in each, and every output file of the phase holds the header
\* followed by exactly `duration` blocks.
ExactTicks ==
    mon_pc = "returned" =>
        /\ s = duration
        /\ { e.tick : e \in { x \in polled : x.phase = phase } } = 0 .. duration - 1
        /\ HoldsBlocks(f1[phase], duration)
        /\ prog # "rdt" => HoldsBlocks(f2[phase], duration)

ExactTicksWitness ==
    /\ mon_pc = "returned" /\ prog = "vm"
    /\ phase = 2 /\ duration = MaxDuration
    /\ Len(f2[2].lines) = 1 + 2 * MaxDuration

RowsOf(f) == { f.lines[i] : i \in { j \in DOMAIN f.lines : f.lines[j].line = "row" } }

\* C17: every poll of monitor_pids_pair is given both groups of the phase,
\* and every data row in a file of a phase, for either target, carries the
\* values of the poll of its own tick of that phase.
RowsFromOnePoll ==
    /\ prog # "rdt" =>
          \A e \in polled : e.groups = { [g |-> n, phase |-> e.phase] : n \in GroupNames }
    /\ \A p \in RdtPhases :
          \A r \in RowsOf(f1[p]) \cup RowsOf(f2[p]) :
              /\ r.poll = [phase |-> p, tick |-> r.tick]
              /\ \E e \in polled : e.phase = p /\ e.tick = r.tick

RowsFromOnePollWitness ==
    /\ prog = "cos" /\ phase = 2 /\ s = 2
    /\ Cardinality(RowsOf(f1[2])) = 2 /\ Cardinality(RowsOf(f2[2])) = 2

\* C18: every active group belongs to the current phase, and when a phase
\* is about to start its first group no group is active.
PhasesSequential ==
    /\ \A g \in groups : g.phase = phase
    /\ mon_pc \in {"wait1", "wait2", "start0", "c_start"} => groups = {}

PhasesSequentialWitness ==
    /\ prog = "rdt" /\ phase = 3
    /\ groups = {[g |-> "group0", phase |-> 3]}
    /\ f1[1].exists /\ f1[2].exists

\* C19: once a start, a poll or a stop of a monitoring group has returned
\* an error the run has been aborted.
SubsystemFailureFatal ==
    lib_err # {} => mon_pc = "died"

(***************************************************************************)
(* Properties of the MISSES parsers (SpecParse).                           *)
(***************************************************************************)
\* C20: in both parsers a field made of a number and the suffix k or K
\* parses to the number times 1000, with m or M to the number times
\* 1000000, and without a suffix to the number itself.
SuffixExpansion ==
    mis_val # <<>> => mis_val[1] = Mis([mis |-> mis_tok[1]])

(***************************************************************************)
(* The scoring awk program of noisy_detector.sh on a tick of three         *)
(* processes with bandwidths 10, 20 and 70 and 100 misses each, K = 1.     *)
(***************************************************************************)
ExampleAggs ==
    { [i \in 1 .. 3 |->
          [proc |-> <<"1201", "1202", "1203">>[i], mis |-> 100, llc |-> l[i], bw |-> b[i]]] :
        b \in Perms({10, 20, 70}), l \in [1 .. 3 -> {0, 5, 50}] }

InitExample ==
    /\ split_idle /\ mon_idle /\ parse_idle
    /\ script = "noisy_detector" /\ K = 1
    /\ awk_idle
    /\ agg \in ExampleAggs /\ nd_out = <<>>

NextExample == ScoreAgg

SpecExample == InitExample /\ [][NextExample]_vars

(***************************************************************************)
(* Properties of the scores (SpecScore, SpecExample).                      *)
(***************************************************************************)
InUnit(f) == f.den > 0 /\ f.num >= 0 /\ f.num <= f.den

RECURSIVE FSumSeq(_, _)
FSumSeq(q, i) == IF i > Len(q) THEN FInt(0) ELSE FAdd(q[i], FSumSeq(q, i + 1))

\* the sum over the records of a tick of a raw value
RawSum(recs, val(_)) == SumOver([i \in DOMAIN recs |-> val(recs[i])], DOMAIN recs)

Indicator(b) == IF b THEN FInt(1) ELSE FInt(0)

CmBw(r) == r.MBL_sum + r.MBR_sum
CmOcc(r) == r.LLC_KB_sum
CmMis(r) == r.MISSES_sum
NdBw(r) == r.MBW
NdOcc(r) == r.LLC
NdMis(r) == r.MIS

\* C21: for every tick (sample values are never negative) each normalized
\* bandwidth, occupancy and miss share lies in [0,1], each OccupancyScore
\* lies in [0,2], and each normalized component summed over the processes of
\* the tick is 1 when the corresponding raw sum is non-zero and 0 otherwise.
SharesBounded ==
    /\ out # <<>> =>
          LET recs == out[1].records
          IN /\ \A i \in DOMAIN recs :
                   /\ InUnit(recs[i].norm_bw)
                   /\ InUnit(recs[i].norm_llc_occ)
                   /\ InUnit(recs[i].norm_llc_miss)
                   /\ recs[i].Harm_Score = recs[i].norm_llc_miss
                   /\ recs[i].Occ_Score.den > 0
                   /\ recs[i].Occ_Score.num >= 0
                   /\ recs[i].Occ_Score.num <= 2 * recs[i].Occ_Score.den
             /\ FSumSeq([i \in DOMAIN recs |-> recs[i].norm_bw], 1)
                   = Indicator(RawSum(recs, CmBw) # 0)
             /\ FSumSeq([i \in DOMAIN recs |-> recs[i].norm_llc_occ], 1)
                   = Indicator(RawSum(recs, CmOcc) # 0)
             /\ FSumSeq([i \in DOMAIN recs |-> recs[i].norm_llc_miss], 1)
                   = Indicator(RawSum(recs, CmMis) # 0)
    /\ nd_out # <<>> =>
          LET recs == nd_out[1].records
          IN /\ \A i \in DOMAIN recs :
                   /\ InUnit(recs[i].Harm_Score)
                   /\ recs[i].Occ_Score.den > 0
                   /\ recs[i].Occ_Score.num >= 0
                   /\ recs[i].Occ_Score.num <= 2 * recs[i].Occ_Score.den
             /\ FSumSeq([i \in DOMAIN recs |-> recs[i].Harm_Score], 1)
                   = Indicator(RawSum(recs, NdMis) # 0)
             /\ FSumSeq([i \in DOMAIN recs |-> recs[i].Occ_Score], 1)
                   = FAdd(Indicator(RawSum(recs, NdBw) # 0),
                          Indicator(RawSum(recs, NdOcc) # 0))

SharesBoundedWitness ==
    /\ nd_out # <<>>
    /\ Len(nd_out[1].records) = 2
    /\ \A i \in 1 .. 2 :
          /\ nd_out[1].records[i].MIS > 0
          /\ nd_out[1].records[i].MBW > 0
    /\ nd_out[1].records[1].MBW # nd_out[1].records[2].MBW
    /\ \A i \in 1 .. 2 : nd_out[1].records[i].LLC = 0

\* the tick of the worked example has been scored
ExampleScored ==
    /\ nd_out # <<>> /\ K = 1
    /\ Len(nd_out[1].records) = 3
    /\ { nd_out[1].records[i].MBW : i \in 1 .. 3 } = {10, 20, 70}
    /\ \A i \in 1 .. 3 : nd_out[1].records[i].MIS = 100

\* the line of the process whose bandwidth is 70
Heavy == CHOOSE i \in 1 .. 3 : nd_out[1].records[i].MBW = 70

HeavyWins ==
    LET r == nd_out[1].records
    IN /\ \A i \in 1 .. 3 : i # Heavy =>
             /\ FGt(r[Heavy].Occ_Score, r[i].Occ_Score)
             /\ FGt(r[Heavy].Noise_Score, r[i].Noise_Score)
       /\ nd_out[1].culprit = r[Heavy].process

\* C22 as stated: with bandwidths 10, 20, 70, 100 misses each and K = 1, all
\* three processes get HarmScore 1/3 and, whatever the occupancy values, the
\* bandwidth-70 process has the highest OccupancyScore and NoiseScore and is
\* the verdict.
ExampleHeavyWinsAnyOccupancy ==
    ExampleScored =>
        /\ \A i \in 1 .. 3 : nd_out[1].records[i].Harm_Score = Frac(1, 3)
        /\ HeavyWins

\* C22 as amended: all three processes get HarmScore 1/3 whatever the
\* occupancy values; the bandwidth-70 process has the highest scores and is
\* the verdict when no other process has a larger occupancy than it has.
ExampleHeavyWinsTopOccupancy ==
    ExampleScored =>
        /\ \A i \in 1 .. 3 : nd_out[1].records[i].Harm_Score = Frac(1, 3)
        /\ (\A i \in 1 .. 3 : nd_out[1].records[Heavy].LLC >= nd_out[1].records[i].LLC)
              => HeavyWins

ExampleHeavyWinsWitness ==
    /\ ExampleScored
    /\ Heavy = 2
    /\ \A i \in 1 .. 3 : nd_out[1].records[i].LLC = 5
    /\ nd_out[1].culprit = "1202"

\* C23: when bandwidth and occupancy are zero for every process of a tick
\* every OccupancyScore is exactly 0, when the misses sum to zero every
\* HarmScore is exactly 0, and every score printed is a defined number (no
\* division by zero takes place).
ZeroSumsScoreZero ==
    LET S == ScoredSamples
    IN /\ \A x \in S : x.Occ.den > 0 /\ x.Harm.den > 0 /\ x.Noise.den > 0
       /\ (\A x \in S : x.bw = 0 /\ x.occ = 0) => \A x \in S : x.Occ = FInt(0)
       /\ (\A x \in S : x.mis = 0) => \A x \in S : x.Harm = FInt(0)

ZeroSumsWitness ==
    /\ out # <<>>
    /\ Len(out[1].records) = 2
    /\ \A i \in 1 .. 2 :
          /\ CmBw(out[1].records[i]) = 0
          /\ CmOcc(out[1].records[i]) = 0
          /\ CmMis(out[1].records[i]) = 0
          /\ out[1].records[i].Noise_Score = FInt(0)

(***************************************************************************)
(* Properties of a run of a partitioning program (SpecRun).                *)
(***************************************************************************)
\* a name resolved to no process, or both names resolved to one process
ResolutionFailed ==
    \/ \E i \in DOMAIN found : found[i] <= 0
    \/ Len(found) = 2 /\ found[1] = found[2]

\* C25: when a workload name resolves to no process (a non-positive id) or
\* both names resolve to the same process id, the run has aborted, no pid
\* was appended to a tasks file, every process is still in the default
\* class and no monitoring group was started.
ResolutionFailureFatal ==
    ResolutionFailed =>
        /\ main_pc = "died"
        /\ exit_msg \in {"no pid", "same pid"}
        /\ appended = {}
        /\ \A p \in DOMAIN tasks : tasks[p] = "default"
        /\ groups = {} /\ mon_pc = None

ResolutionFailureWitness ==
    /\ prog = "vm"
    /\ Len(found) = 2 /\ found[1] > 0 /\ found[1] = found[2]
    /\ Classes \subseteq cos_dirs
    /\ main_pc = "died"

\* C26 as stated: the control strings cos.c writes are those its header
\* documents: MB:0=100;1=100, the unrestricted L2 line, and an L3 line that
\* gives socket 0 the full mask and socket 1 the lower half (COS1) or the
\* upper half (COS2).
SchemataAsDocumented ==
    prog = "cos" =>
        /\ schemata["COS1"] # <<>> =>
              schemata["COS1"][1]
                 = [mb |-> 100, l2 |-> "ffff", sock0 |-> full_mask, sock1 |-> mask1]
        /\ schemata["COS2"] # <<>> =>
              schemata["COS2"][1]
                 = [mb |-> 100, l2 |-> "ffff", sock0 |-> full_mask, sock1 |-> mask2]

(***************************************************************************)
(* A second instance of the same partitioning program on the same host,    *)
(* working on two other VMs: the steps of its main() that touch resctrl.   *)
(* Both instances read the same capacity file, which holds full_mask from  *)
(* the start.  The second instance finds its VMs and they stay alive.      *)
(***************************************************************************)
PeerPids == {"pid3", "pid4"}

PeerSteps == <<"mkdir1", "mkdir2", "schem1", "schem2", "assign1", "assign2",
               "monitor", "ret1", "ret2", "rmdir1", "rmdir2", "done">>

\* the position after pc in main()
peer_after(pc) == PeerSteps[(CHOOSE i \in DOMAIN PeerSteps : PeerSteps[i] = pc) + 1]

\* the class and the VM a step of main() is about
peer_class(pc) ==
    IF pc \in {"mkdir1", "schem1", "assign1", "ret1", "rmdir1"} THEN "COS1" ELSE "COS2"

peer_pid(pc) == IF peer_class(pc) = "COS1" THEN "pid3" ELSE "pid4"

\* the share main() computed for a class: split_mask on the same capacity mask
peer_mask(c) ==
    LET halves == IF prog = "cos" THEN cos_split_mask(full_mask)
                  ELSE vm_split_mask(full_mask)
    IN IF c = "COS1" THEN halves[1] ELSE halves[2]

\* if (mkdir_if_missing(COS1_DIR) != 0) die(...): an existing directory is success
PeerMkdir ==
    /\ peer_pc \in {"mkdir1", "mkdir2"}
    /\ \E ok \in BOOLEAN :
          IF ok
          THEN /\ cos_dirs' = cos_dirs \cup {peer_class(peer_pc)}
               /\ peer_pc' = peer_after(peer_pc)
          ELSE peer_pc' = "died" /\ UNCHANGED cos_dirs
    /\ UNCHANGED <<schemata, tasks, appended, found, map_vars>>
    /\ UNCHANGED <<split_vars, awk_vars, nd_vars, mon_vars, mon_aux, parse_vars>>

\* if (write_str_to_file(COS1_SCHEMATA, ...) != 0) die(...)
PeerWriteSchemata ==
    /\ peer_pc \in {"schem1", "schem2"}
    /\ LET c == peer_class(peer_pc)
       IN \E ok \in outcomes(c) :
             IF ok
             THEN /\ schemata' = [schemata EXCEPT ![c] =
                         << IF prog = "cos" THEN cos_schema(c, peer_mask(c))
                            ELSE vm_schema(peer_mask(c)) >>]
                  /\ peer_pc' = peer_after(peer_pc)
             ELSE peer_pc' = "died" /\ UNCHANGED schemata
    /\ UNCHANGED <<cos_dirs, tasks, appended, found, map_vars>>
    /\ UNCHANGED <<split_vars, awk_vars, nd_vars, mon_vars, mon_aux, parse_vars>>

\* if (append_str_to_file(COS1_TASKS, buf) != 0) die(...)
PeerAssign ==
    /\ peer_pc \in {"assign1", "assign2"}
    /\ LET c == peer_class(peer_pc)
       IN \E ok \in outcomes(c) :
             IF ok
             THEN /\ tasks' = [tasks EXCEPT ![peer_pid(peer_pc)] = c]
                  /\ peer_pc' = peer_after(peer_pc)
             ELSE peer_pc' = "died" /\ UNCHANGED tasks
    /\ UNCHANGED <<cos_dirs, schemata, appended, found, map_vars>>
    /\ UNCHANGED <<split_vars, awk_vars, nd_vars, mon_vars, mon_aux, parse_vars>>

\* monitor_pids_pair(pid1, pid2, duration, ...) of Phase 1 returns
PeerMonitor ==
    /\ peer_pc = "monitor"
    /\ peer_pc' = peer_after(peer_pc)
    /\ UNCHANGED <<cos_dirs, schemata, tasks, appended, found, map_vars>>
    /\ UNCHANGED <<split_vars, awk_vars, nd_vars, mon_vars, mon_aux, parse_vars>>

\* after Phase 1: if (append_str_to_file(<tasks file>, pid) != 0) die(...)
PeerReturn ==
    /\ peer_pc \in {"ret1", "ret2"}
    /\ LET file == return_file(peer_class(peer_pc))
       IN \E ok \in outcomes(file) :
             IF ok
             THEN /\ tasks' = [tasks EXCEPT ![peer_pid(peer_pc)] = class_of(file)]
                  /\ peer_pc' = peer_after(peer_pc)
             ELSE peer_pc' = "died" /\ UNCHANGED tasks
    /\ UNCHANGED <<cos_dirs, schemata, appended, found, map_vars>>
    /\ UNCHANGED <<split_vars, awk_vars, nd_vars, mon_vars, mon_aux, parse_vars>>

\* if (rmdir(COS1_DIR) != 0) die(...)
PeerRmdir ==
    /\ peer_pc \in {"rmdir1", "rmdir2"}
    /\ LET c == peer_class(peer_pc)
       IN \E ok \in outcomes(c) :
             IF ok
             THEN /\ remove_class(c)
                  /\ peer_pc' = peer_after(peer_pc)
             ELSE peer_pc' = "died" /\ UNCHANGED <<cos_dirs, schemata, tasks>>
    /\ UNCHANGED <<appended, found, map_vars>>
    /\ UNCHANGED <<split_vars, awk_vars, nd_vars, mon_vars, mon_aux, parse_vars>>

\* the capacity masks of the hosts two instances run on
PeerMasks == {{0, 1}, {1, 3, 63}}

InitPeer ==
    /\ prog \in {"cos", "vm"}
    /\ main_pc = "read_mask"
    /\ full_mask \in PeerMasks /\ mask1 = {} /\ mask2 = {}
    /\ cos_dirs = {} /\ schemata = [c \in Classes |-> <<>>]
    /\ tasks = [p \in Pids \cup PeerPids |-> "default"] /\ appended = {}
    /\ found = <<>> /\ peer_pc = "mkdir1" /\ map_idle
    /\ score_idle
    /\ mon_pc = None /\ phase = 0
    /\ duration = 1
    /\ s = 0 /\ wait_i = 0
    /\ live = Pids
    /\ groups = {} /\ polled = {} /\ checked = {}
    /\ f1 = [p \in Phases |-> NoFile] /\ f2 = [p \in Phases |-> NoFile]
    /\ exit_msg = None
    /\ values = [g \in GroupNames |-> NoPoll] /\ seen = {} /\ lib_err = {}

NextPeer ==
    \/ ReadMask /\ full_mask' = full_mask
    \/ CheckWays \/ SplitMask \/ DetectSockets \/ MkdirCos1 \/ MkdirCos2
    \/ PqosInit \/ WriteSchemata1 \/ WriteSchemata2 \/ FindPid1 \/ FindPid2
    \/ AssignPid1 \/ AssignPid2 \/ EnterPhase1
    \/ WaitPid1 \/ WaitPid2 \/ StartGroup0 \/ StartGroup1 \/ OpenFile1 \/ OpenFile2
    \/ WriteHeader \/ LoopTest \/ CheckPid1 \/ CheckPid2 \/ Poll \/ WriteRows
    \/ StopGroups
    \/ ReturnPid1 \/ ReturnPid2 \/ RmdirCos1 \/ RmdirCos2 \/ Reinit \/ Finish
    \/ ProcessExits
    \/ PeerMkdir \/ PeerWriteSchemata \/ PeerAssign \/ PeerMonitor \/ PeerReturn
    \/ PeerRmdir

SpecPeer == InitPeer /\ [][NextPeer]_vars

(***************************************************************************)
(* Properties of two interleaved instances (SpecPeer).                     *)
(***************************************************************************)
\* an instance holds the classes from its first mkdir to its last rmdir
MainHolds ==
    main_pc \in {"mkdir2", "init", "schem1", "schem2", "find1", "find2", "assign1",
                 "assign2", "phase1", "monitor1", "ret2", "rmdir1", "rmdir2"}

PeerHolds ==
    peer_pc \in {"mkdir2", "schem1", "schem2", "assign1", "assign2", "monitor",
                 "ret1", "ret2", "rmdir1", "rmdir2"}

\* C24 as stated: at most one instance holds COS1 and COS2 at a time, and
\* while the first instance runs Phase 1 its classes exist, carry the control
\* strings it wrote, keep the members it assigned and have no member of the
\* other instance.
ExclusiveClasses ==
    /\ ~(MainHolds /\ PeerHolds)
    /\ main_pc = "monitor1" =>
          /\ Classes \subseteq cos_dirs
          /\ \A c \in Classes : schemata[c] # <<>>
          /\ \A p \in PeerPids \cap DOMAIN tasks : tasks[p] = "default"
          /\ \A a \in appended : a.pid \in live => tasks[a.pid] = a.file

(***************************************************************************)
(* More properties of the scoring scripts (SpecScore).                     *)
(***************************************************************************)
\* the verdict v names one of the labels in `owners`; its score is that
\* label's NoiseScore and no record of the tick has a larger one
NamesOwner(v, owners) ==
    /\ v.culprit \in owners
    /\ \E i \in DOMAIN v.records :
          /\ v.records[i].process = v.culprit
          /\ v.records[i].Noise_Score = v.maxN
    /\ \A j \in DOMAIN v.records : ~FGt(v.records[j].Noise_Score, v.maxN)

\* C27 as stated: for every tick with at least one data row and K >= 0, the
\* verdict names a label that owns a data row of the tick, the reported
\* score is that label's NoiseScore and no process of the tick scores more.
VerdictNamesOwner ==
    K >= 0 =>
        /\ (nd_out # <<>> /\ agg # <<>>) =>
              NamesOwner(nd_out[1], { agg[i].proc : i \in DOMAIN agg })
        /\ (out # <<>> /\ out[1].rows # <<>>) =>
              NamesOwner(out[1], { RowLabel(r) : r \in Range(out[1].rows) })

(***************************************************************************)
(* The core-map script from the two core specifications to the loaded      *)
(* core2proc map.  A specification is a comma-separated list of segments,  *)
(* each a single core or a range lo-hi; a line of the map file is the list *)
(* of its comma-separated fields.                                          *)
(***************************************************************************)
CoreIds == 0 .. MaxCore

Segments ==
    { [range |-> FALSE, lo |-> c, hi |-> c] : c \in CoreIds }
      \cup { [range |-> TRUE, lo |-> a, hi |-> b] : a \in CoreIds, b \in CoreIds }

CoreSpecs == UNION { [1 .. n -> Segments] : n \in 1 .. MaxSegs }

\* get_cores: a range is expanded, any other segment is kept as it is
get_cores(spec) ==
    UNION { IF spec[i].range THEN spec[i].lo .. spec[i].hi ELSE {spec[i].lo} :
              i \in DOMAIN spec }

\* split($i,a,":"); print a[1]","a[2]: the name, a comma, the specification
map_line(proc, spec) == <<[proc |-> proc]>> \o spec

\* split(line,a,/[ \t]*,[ \t]*/); proc=a[1]; corespec=a[2];
\* n=split(corespec, parts, /,/); then a range or a single core per part
line_cores(line) ==
    LET corespec == IF Len(line) >= 2 THEN <<line[2]>> ELSE <<>>
    IN UNION { IF corespec[i].range THEN corespec[i].lo .. corespec[i].hi
               ELSE {corespec[i].lo} : i \in DOMAIN corespec }

\* while ((getline line < MAP) > 0) { ... core2proc[c]=proc ... }
RECURSIVE load_map(_, _, _)
load_map(lines, i, map) ==
    IF i <= Len(lines)
    THEN load_map(lines, i + 1,
                  [c \in line_cores(lines[i]) |-> lines[i][1].proc] @@ map)
    ELSE map

\* ALL_CORES=$(get_cores "$P1C"),$(get_cores "$P2C")
GetCores ==
    /\ map_pc = "get_cores"
    /\ ALL_CORES' = get_cores(P1C) \cup get_cores(P2C)
    /\ map_pc' = "save_map"
    /\ UNCHANGED <<P1C, P2C, MAPFILE, loaded_map, found, peer_pc>>
    /\ UNCHANGED <<split_vars, awk_vars, nd_vars, mon_vars, mon_aux, alloc_vars, parse_vars>>

\* echo "$MAP_STR" | awk '{ for(i=1;i<=NF;i++){ split($i,a,":"); print a[1]","a[2] } }'
SaveMap ==
    /\ map_pc = "save_map"
    /\ MAPFILE' = << map_line("proc1", P1C), map_line("proc2", P2C) >>
    /\ map_pc' = "load_map"
    /\ UNCHANGED <<P1C, P2C, ALL_CORES, loaded_map, found, peer_pc>>
    /\ UNCHANGED <<split_vars, awk_vars, nd_vars, mon_vars, mon_aux, alloc_vars, parse_vars>>

\* BEGIN{ ... # load core->proc map ... }
LoadMap ==
    /\ map_pc = "load_map"
    /\ loaded_map' = load_map(MAPFILE, 1, <<>>)
    /\ map_pc' = "loaded"
    /\ UNCHANGED <<P1C, P2C, ALL_CORES, MAPFILE, found, peer_pc>>
    /\ UNCHANGED <<split_vars, awk_vars, nd_vars, mon_vars, mon_aux, alloc_vars, parse_vars>>

InitMap ==
    /\ split_idle_but_map /\ mon_idle /\ score_idle
    /\ map_pc = "get_cores"
    /\ P1C \in CoreSpecs
    /\ P2C \in { <<g>> : g \in Segments }
    /\ ALL_CORES = {} /\ MAPFILE = <<>> /\ loaded_map = <<>>

NextMap == GetCores \/ SaveMap \/ LoadMap

SpecMap == InitMap /\ [][NextMap]_vars

(***************************************************************************)
(* Properties of the core map (SpecMap).                                   *)
(***************************************************************************)
\* C28 as stated: every core of ALL_CORES is mapped by the loaded core2proc
\* map, to a process whose specification listed it.
AllSampledMapped ==
    map_pc = "loaded" =>
        \A c \in ALL_CORES :
            /\ c \in DOMAIN loaded_map
            /\ loaded_map[c] = "proc1" => c \in get_cores(P1C)
            /\ loaded_map[c] = "proc2" => c \in get_cores(P2C)

(***************************************************************************)
(* More properties of the monitoring phases (SpecRun).                     *)
(***************************************************************************)
\* C29 as stated: when a monitoring call has returned, and when the program
\* has exited on whatever path, no monitoring group is active: every group
\* a phase started was stopped before the phase ended or the program exited.
NoGroupLeaked ==
    (mon_pc = "returned" \/ Exited) => groups = {}

(***************************************************************************)
(* A miss delta from a sampler's row to a parser: the C programs print     *)
(* miss/1024 and the letter k, the scripts expand the suffix.              *)
(***************************************************************************)
MissDeltas == (0 .. MaxMiss) \cup {1024000, 1048575, 1048576}

\* A mutant of the writer: the delta is divided by 1000.
format_miss_decimal(m) == [digits |-> m \div 1000, suffix |-> "k"]

\* fprintf(f, "... %8" PRIu64 "k ...", ..., miss/1024, ...)
format_miss(m) == [digits |-> m \div 1024, suffix |-> "k"]

\* a sampler prints the row of a poll
WriteMiss ==
    /\ miss # <<>> /\ mis_tok = <<>>
    /\ mis_tok' = <<format_miss(miss[1])>>
    /\ UNCHANGED <<parser, mis_val, miss>>
    /\ UNCHANGED <<split_vars, awk_vars, nd_vars, mon_vars, mon_aux, alloc_vars, run_vars>>

InitTrip ==
    /\ split_idle /\ mon_idle
    /\ script = None /\ K = 0 /\ awk_idle /\ nd_idle
    /\ parser \in Parsers
    /\ miss \in { <<m>> : m \in MissDeltas }
    /\ mis_tok = <<>> /\ mis_val = <<>>

NextTrip == WriteMiss \/ ParseMis

SpecTrip == InitTrip /\ [][NextTrip]_vars

(***************************************************************************)
(* Properties of the round trip (SpecTrip).                                *)
(***************************************************************************)
\* C30: for every miss delta m a sampler writes floor(m/1024) followed by k,
\* the parser's suffix expansion of that field yields floor(m/1024) * 1000,
\* and the recovered value never exceeds m and equals m only when m is 0.
MissRoundTrip ==
    /\ (miss # <<>> /\ mis_tok # <<>>) =>
          mis_tok[1] = [digits |-> miss[1] \div 1024, suffix |-> "k"]
    /\ (miss # <<>> /\ mis_val # <<>>) =>
          /\ mis_val[1] = (miss[1] \div 1024) * 1000
          /\ mis_val[1] <= miss[1]
          /\ mis_val[1] = miss[1] <=> miss[1] = 0

MissRoundTripWitness ==
    /\ parser = "noisy_detector"
    /\ miss = <<2047>>
    /\ mis_val = <<1000>>
====
